---------------------------- MODULE Spec2Model ----------------------------
(***************************************************************************)
(* Verification model of the workout application's core services          *)
(* (app_workout/services.py, signals.py, views.py, serializers.py).       *)
(*                                                                         *)
(* The module holds several specifications over one set of variables;     *)
(* each specification drives one component and leaves the variables of    *)
(* the other components at their idle value:                              *)
(*   SpecPredict  - sequence predictor (routine / workout)                *)
(*   SpecLadder   - progression ladder                                    *)
(*   SpecDebounce - RestBackfillService.ensure_backfilled, two threads    *)
(*   SpecGaps     - rest-day backfill                                     *)
(*   SpecAgg      - cardio detail rows and log aggregates                 *)
(*   SpecGoal     - mph / reps-per-hour goal computation                  *)
(***************************************************************************)
EXTENDS Integers, Sequences, FiniteSets, TLC

VARIABLES
    \* ---- sequence predictor ----
    workouts,               \* CardioWorkout table: id -> [routine, priority_order, skip]
    plan,                   \* CardioPlan of the selected program: routine ids by routine_order
    logs,                   \* CardioDailyLog.workout_id, oldest -> newest (datetime_started)
    skip_marathon_weekdays, \* rules.skip_marathon_prep_weekdays and now.weekday() < 5
    predicted,              \* the latest predictor call on this snapshot: [fn, arg, val]
    \* ---- progression ladder ----
    progressions,           \* CardioProgression.progression of one workout, by progression_order
    cardio_logs,            \* its CardioDailyLog rows, oldest -> newest
    selected,               \* result of the latest get_next_progression_for_workout call
    trail,                  \* indices served in the current run of "serve, log as achieved"
    \* ---- RestBackfillService ----
    pc,                     \* thread -> position inside ensure_backfilled
    call,                   \* thread -> arguments of its current call: [now, force]
    _last_run_at,           \* RestBackfillService._last_run_at (None before the first run)
    _run_lock,              \* RestBackfillService._run_lock: its holder, or Unlocked
    seen,                   \* thread -> the _last_run_at its deciding check read, and where
    ran,                    \* thread -> its current call executed backfill_rest_days_if_gap
    created,                \* thread -> number of logs its current call returned
    n_created,              \* rest logs created so far
    overlap,                \* the two threads' current calls overlapped in time
    \* ---- cardio detail rows and log aggregates ----
    unit,                   \* log.workout.unit: [type, miles_per_unit]
    details,                \* CardioDailyLogDetail rows of the log, by (datetime, id)
    stored,                 \* the log's stored max_mph, avg_mph, total_completed, minutes_elapsed
    last_op,                \* the latest operation on the log or its rows
    \* ---- mph / reps-per-hour goals ----
    mph_goal_strategy,      \* CardioWorkout.mph_goal_strategy of the target workout
    daily_logs,             \* CardioDailyLog rows, oldest -> newest (datetime_started)
    strength_logs,          \* StrengthDailyLog rows of the routine, oldest -> newest
    goal,                   \* the latest goal call: its arguments and what it returned
    \* ---- rest-day backfill ----
    rest_workout,           \* _resolve_rest_workout() finds a Rest workout
    tz_offset,              \* UTC offset of _calendar_tz(), hours
    clock,                  \* timezone.now(), hours
    gap_logs,               \* CardioDailyLog rows: [datetime_started, workout]
    gap_before,             \* the rows the latest backfill run started from
    returned,               \* datetime_started of the rows the latest run created
    run_counts,             \* rows created by each run since the last log or clock change
    gap_op,                 \* the latest operation on the history
    \* ---- repeated predictor calls ----
    skip_marathon_prep_weekdays, \* SpecialRule.skip_marathon_prep_weekdays
    weekday,                \* now.weekday() of the calls made today (Monday is 0)
    earlier,                \* the predictor call before the latest one on this snapshot
    latest,                 \* the latest predictor call on this snapshot: [fn, arg, val, weekday]
    \* ---- calls on missing or empty configuration ----
    selected_cardio,        \* a Program with selected_cardio=True exists
    outcome,                \* the latest call on this configuration and what it returned
    \* ---- bulk creation inside transaction.atomic ----
    txn,                    \* the writing request's transaction: position, batch, uncommitted rows and aggregates
    observed,               \* what a concurrent reader last read: rows and aggregates of the log
    \* ---- write contention during the backfill ----
    busy,                   \* writes of other connections that hold the database lock
    raised,                 \* thread -> its current call ended with the write's OperationalError
    \* ---- nearest-value snapping ----
    near_value,             \* the value to snap
    near_candidates,        \* the candidate list
    near_result,            \* what the call returned (None before the call)
    \* ---- training type recommendation ----
    cardio_plan_non_rest,   \* plan entries of the selected cardio program that are not Rest
    done_by_type,           \* completion of the last 7 days per discipline, in halves of a session
    blocks,                 \* what else takes a discipline out (next cardio is Rest, recent sessions, weekday rule)
    response                \* recommendation_types and recommendation of the latest request

predVars == <<workouts, plan, logs, skip_marathon_weekdays, predicted>>

ladderVars == <<progressions, cardio_logs, selected, trail>>

debounceVars == <<pc, call, _last_run_at, _run_lock, seen, ran, created, n_created, overlap>>

aggVars == <<unit, details, stored, last_op>>

goalVars == <<mph_goal_strategy, daily_logs, strength_logs, goal>>

gapVars == <<rest_workout, tz_offset, clock, gap_logs, gap_before, returned, run_counts, gap_op>>

repeatVars == <<skip_marathon_prep_weekdays, weekday, earlier, latest>>

configVars == <<selected_cardio, outcome>>

txnVars == <<txn, observed>>

contentionVars == <<busy, raised>>

nearestVars == <<near_value, near_candidates, near_result>>

recVars == <<cardio_plan_non_rest, done_by_type, blocks, response>>

vars == <<predVars, ladderVars, debounceVars, aggVars, goalVars, gapVars, repeatVars, configVars, txnVars, contentionVars, nearestVars, recVars>>

\* the variables each component leaves alone
predOthers == <<ladderVars, debounceVars, aggVars, goalVars, gapVars, repeatVars, configVars, txnVars, contentionVars, nearestVars, recVars>>

ladderOthers == <<predVars, debounceVars, aggVars, goalVars, gapVars, repeatVars, configVars, txnVars, contentionVars, nearestVars, recVars>>

debounceOthers == <<predVars, ladderVars, aggVars, goalVars, gapVars, repeatVars, configVars, txnVars, contentionVars, nearestVars, recVars>>

aggOthers == <<predVars, ladderVars, debounceVars, goalVars, gapVars, repeatVars, configVars, txnVars, contentionVars, nearestVars, recVars>>

goalOthers == <<predVars, ladderVars, debounceVars, aggVars, gapVars, repeatVars, configVars, txnVars, contentionVars, nearestVars, recVars>>

gapOthers == <<predVars, ladderVars, debounceVars, aggVars, goalVars, repeatVars, configVars, txnVars, contentionVars, nearestVars, recVars>>

\* repeated calls drive the predictor's variables too
repeatOthers == <<ladderVars, debounceVars, aggVars, goalVars, gapVars, configVars, txnVars, contentionVars, nearestVars, recVars>>

\* these calls read the predictor's, the ladder's and the goal tables
configOthers == <<debounceVars, aggVars, gapVars, repeatVars, txnVars, contentionVars, nearestVars, recVars>>

\* the transaction writes the log's rows and aggregates
txnOthers == <<predVars, ladderVars, debounceVars, goalVars, gapVars, repeatVars, configVars, contentionVars, nearestVars, recVars>>

\* contention is met inside ensure_backfilled
contentionOthers == <<predVars, ladderVars, aggVars, goalVars, gapVars, repeatVars, configVars, txnVars, nearestVars, recVars>>

nearestOthers == <<predVars, ladderVars, debounceVars, aggVars, goalVars, gapVars, repeatVars, configVars, txnVars, contentionVars, recVars>>

recOthers == <<predVars, ladderVars, debounceVars, aggVars, goalVars, gapVars, repeatVars, configVars, txnVars, contentionVars, nearestVars>>

None == 0

\* the value of a component's variables while another component runs
predIdle ==
    /\ workouts = <<>>
    /\ plan = <<>>
    /\ logs = <<>>
    /\ skip_marathon_weekdays = FALSE
    /\ predicted = None

ladderIdle ==
    /\ progressions = <<>>
    /\ cardio_logs = <<>>
    /\ selected = None
    /\ trail = <<>>

debounceIdle ==
    /\ pc = <<>>
    /\ call = <<>>
    /\ _last_run_at = None
    /\ _run_lock = <<>>
    /\ seen = <<>>
    /\ ran = <<>>
    /\ created = <<>>
    /\ n_created = 0
    /\ overlap = FALSE

aggIdle ==
    /\ unit = <<>>
    /\ details = <<>>
    /\ stored = <<>>
    /\ last_op = "idle"

goalIdle ==
    /\ mph_goal_strategy = ""
    /\ daily_logs = <<>>
    /\ strength_logs = <<>>
    /\ goal = None

gapIdle ==
    /\ rest_workout = FALSE
    /\ tz_offset = 0
    /\ clock = 0
    /\ gap_logs = {}
    /\ gap_before = {}
    /\ returned = <<>>
    /\ run_counts = <<>>
    /\ gap_op = "idle"

repeatIdle ==
    /\ skip_marathon_prep_weekdays = FALSE
    /\ weekday = 0
    /\ earlier = None
    /\ latest = None

configIdle ==
    /\ selected_cardio = FALSE
    /\ outcome = None

txnIdle ==
    /\ txn = None
    /\ observed = None

contentionIdle ==
    /\ busy = 0
    /\ raised = <<>>

nearestIdle ==
    /\ near_value = None
    /\ near_candidates = <<>>
    /\ near_result = None

recIdle ==
    /\ cardio_plan_non_rest = 0
    /\ done_by_type = <<>>
    /\ blocks = <<>>
    /\ response = None

\* every component but the named ones is idle
IdleBut(components) ==
    /\ IF "predict" \in components THEN TRUE ELSE predIdle
    /\ IF "ladder" \in components THEN TRUE ELSE ladderIdle
    /\ IF "debounce" \in components THEN TRUE ELSE debounceIdle
    /\ IF "agg" \in components THEN TRUE ELSE aggIdle
    /\ IF "goal" \in components THEN TRUE ELSE goalIdle
    /\ IF "gaps" \in components THEN TRUE ELSE gapIdle
    /\ IF "repeat" \in components THEN TRUE ELSE repeatIdle
    /\ IF "config" \in components THEN TRUE ELSE configIdle
    /\ IF "txn" \in components THEN TRUE ELSE txnIdle
    /\ IF "contention" \in components THEN TRUE ELSE contentionIdle
    /\ IF "nearest" \in components THEN TRUE ELSE nearestIdle
    /\ IF "recommend" \in components THEN TRUE ELSE recIdle

\* ------------------------------------------------------------------------
\* Generic list helpers (Python lists are 0-based; Seq is 1-based)
\* ------------------------------------------------------------------------

At0(s, i) == s[i + 1]

InSeq(x, s) == \E i \in 1..Len(s) : s[i] = x

RECURSIVE Repeat(_, _)
Repeat(s, k) == IF k <= 0 THEN <<>> ELSE s \o Repeat(s, k - 1)

\* the last n elements of s, order kept ([:n] of the newest-first query, reversed)
LastN(s, n) ==
    IF n <= 0 THEN <<>>
    ELSE IF Len(s) <= n THEN s ELSE SubSeq(s, Len(s) - n + 1, Len(s))

Max2(a, b) == IF a >= b THEN a ELSE b

SetMax(S) == CHOOSE x \in S : \A y \in S : y <= x

SetMin(S) == CHOOSE x \in S : \A y \in S : x <= y

RECURSIVE SeqsUpTo(_, _)
SeqsUpTo(S, n) ==
    IF n = 0 THEN {<<>>}
    ELSE LET shorter == SeqsUpTo(S, n - 1)
         IN shorter \cup {Append(s, x) : s \in {t \in shorter : Len(t) = n - 1}, x \in S}

\* ------------------------------------------------------------------------
\* _find_closest_subsequence
\* ------------------------------------------------------------------------

RECURSIVE MatchLen(_, _, _, _)
MatchLen(text, pattern, start, match_len) ==
    IF /\ start + match_len < Len(text)
       /\ match_len < Len(pattern)
       /\ At0(text, start + match_len) = At0(pattern, match_len)
    THEN MatchLen(text, pattern, start, match_len + 1)
    ELSE match_len

\* the loop "for start in range(len(text) - 1, -1, -1)"; best_start -1 is None
RECURSIVE ScanStarts(_, _, _, _, _)
ScanStarts(text, pattern, start, best_start, best_len) ==
    IF start < 0 THEN <<best_start, best_len>>
    ELSE LET match_len == MatchLen(text, pattern, start, 0)
             new_start == IF match_len > best_len THEN start ELSE best_start
             new_len   == IF match_len > best_len THEN match_len ELSE best_len
         IN IF new_len = Len(pattern)
            THEN <<new_start, new_len>>
            ELSE ScanStarts(text, pattern, start - 1, new_start, new_len)

\* the search taking the first full match from the front of the text
_find_leftmost_subsequence(text, pattern) ==
    LET full == {st \in 0..(Len(text) - 1) : MatchLen(text, pattern, st, 0) = Len(pattern)}
    IN IF pattern = <<>> \/ text = <<>> THEN <<-1, 0>>
       ELSE IF full # {} THEN <<SetMin(full), Len(pattern)>>
       ELSE ScanStarts(text, pattern, Len(text) - 1, -1, 0)

_find_closest_subsequence(text, pattern) ==
    IF pattern = <<>> \/ text = <<>> THEN <<-1, 0>>
    ELSE ScanStarts(text, pattern, Len(text) - 1, -1, 0)

\* ------------------------------------------------------------------------
\* predict_next_cardio_routine
\* ------------------------------------------------------------------------

\* routines whose name contains "marathon" (routine 3 is "Marathon Prep")
MarathonRoutines == {3}

\* every routine taken as eligible
is_allowed_always(routine_id) == TRUE

is_allowed(routine_id) ==
    ~(skip_marathon_weekdays /\ routine_id \in MarathonRoutines)

\* first allowed routine id scanning forward one plan cycle from start_index
choose_allowed_from(plan_ids, start_index) ==
    LET n    == Len(plan_ids)
        base == start_index % n
        offs == {o \in 0..(n - 1) : is_allowed(At0(plan_ids, (base + o) % n))}
    IN IF offs = {} THEN At0(plan_ids, base)
       ELSE At0(plan_ids, (base + (CHOOSE o \in offs : \A q \in offs : o <= q)) % n)

\* valid_next_ids with the successor index taken one position too far
valid_next_ids_shifted(plan_ids, last_id) ==
    LET n    == Len(plan_ids)
        succ == [i \in 1..n |-> IF plan_ids[i] = last_id
                                THEN At0(plan_ids, (i + 1) % n) ELSE None]
    IN SelectSeq(succ, LAMBDA x : x # None)

\* [plan_ids[(i + 1) % n] for i, rid in enumerate(plan_ids) if rid == last_id]
valid_next_ids(plan_ids, last_id) ==
    LET n    == Len(plan_ids)
        succ == [i \in 1..n |-> IF plan_ids[i] = last_id
                                THEN At0(plan_ids, i % n) ELSE None]
    IN SelectSeq(succ, LAMBDA x : x # None)

\* guard_routine without the direct-successor check
guard_routine_unchecked(plan_ids, next_id, start_index, valid, allowed_valid) ==
    IF ~is_allowed(next_id)
    THEN IF allowed_valid # <<>> THEN allowed_valid[1]
         ELSE choose_allowed_from(plan_ids, start_index)
    ELSE next_id

\* the eligibility / direct-successor guard applied to the computed successor
guard_routine(plan_ids, next_id, start_index, valid, allowed_valid) ==
    IF ~is_allowed(next_id)
    THEN IF allowed_valid # <<>> THEN allowed_valid[1]
         ELSE choose_allowed_from(plan_ids, start_index)
    ELSE IF valid # <<>> /\ ~InSeq(next_id, valid)
         THEN IF allowed_valid # <<>> THEN allowed_valid[1] ELSE next_id
         ELSE next_id

\* workout__routine_id of every log, oldest -> newest
LogRoutineIds == [i \in 1..Len(logs) |-> workouts[logs[i]].routine]

\* the N most recent logs (N = plan length), oldest -> newest
routine_recent_logs(plan_ids, history) == LastN(history, Len(plan_ids))

routine_recent_pattern(plan_ids, history) ==
    SelectSeq(routine_recent_logs(plan_ids, history), LAMBDA rid : InSeq(rid, plan_ids))

PredictRoutine(plan_ids, history) ==
    IF plan_ids = <<>> THEN None
    ELSE
    LET recent_logs    == routine_recent_logs(plan_ids, history)
        recent_pattern == routine_recent_pattern(plan_ids, history)
    IN
    IF recent_logs = <<>> \/ recent_pattern = <<>>
    THEN choose_allowed_from(plan_ids, 0)
    ELSE
    LET n               == Len(plan_ids)
        last_routine_id == recent_pattern[Len(recent_pattern)]
        valid           == valid_next_ids(plan_ids, last_routine_id)
        allowed_valid   == SelectSeq(valid, is_allowed)
        repeats         == Max2(2, (Len(recent_pattern) \div n) + 2)
        repeated_plan   == Repeat(plan_ids, repeats)
        search_space    == SubSeq(repeated_plan, 1, Len(repeated_plan) - 1)
        found           == _find_closest_subsequence(search_space, recent_pattern)
        start_idx       == found[1]
        match_len       == found[2]
    IN
    IF start_idx = -1 \/ match_len = 0
    THEN \* fallback: the routine that follows the last seen routine id
         LET last_pos == SetMax({i \in 0..(Len(repeated_plan) - 1) :
                                    At0(repeated_plan, i) = last_routine_id})
             next_pos == last_pos + 1
             next_id  == IF next_pos < Len(repeated_plan)
                         THEN At0(repeated_plan, next_pos) ELSE plan_ids[1]
         IN guard_routine(plan_ids, next_id, next_pos % n, valid, allowed_valid)
    ELSE \* the element immediately after the matched window
         LET raw_pos  == start_idx + match_len
             next_pos == IF raw_pos >= Len(repeated_plan) THEN raw_pos % n ELSE raw_pos
         IN guard_routine(plan_ids, At0(repeated_plan, next_pos), next_pos % n,
                          valid, allowed_valid)

predict_next_cardio_routine == PredictRoutine(plan, LogRoutineIds)

\* ------------------------------------------------------------------------
\* predict_next_cardio_workout
\* ------------------------------------------------------------------------

\* CardioWorkout.objects.filter(routine_id, skip=False).order_by(priority_order, name);
\* workout names sort like their ids (W1 < W2 < ...)
RECURSIVE OrderedByPriority(_)
OrderedByPriority(S) ==
    IF S = {} THEN <<>>
    ELSE LET first == CHOOSE w \in S : \A v \in S :
                          \/ workouts[w].priority_order < workouts[v].priority_order
                          \/ /\ workouts[w].priority_order = workouts[v].priority_order
                             /\ w <= v
         IN <<first>> \o OrderedByPriority(S \ {first})

workout_plan_ids(routine_id) ==
    OrderedByPriority({w \in DOMAIN workouts :
                          workouts[w].routine = routine_id /\ ~workouts[w].skip})

\* Max("priority_order") over the plan, "or 0"
max_priority(routine_id) ==
    LET ps == {workouts[w].priority_order :
                  w \in {v \in DOMAIN workouts :
                            workouts[v].routine = routine_id /\ ~workouts[v].skip}}
    IN IF ps = {} THEN 0 ELSE SetMax(ps)

\* the M most recent logs of the routine (M = max priority), oldest -> newest
workout_recent_logs(routine_id) ==
    LastN(SelectSeq(logs, LAMBDA w : workouts[w].routine = routine_id),
          max_priority(routine_id))

workout_recent_pattern(routine_id) ==
    LET plan_ids == workout_plan_ids(routine_id)
    IN SelectSeq(workout_recent_logs(routine_id), LAMBDA w : InSeq(w, plan_ids))

\* [wid for wid in plan_ids if wid not in recent_pattern]
missing_ids(plan_ids, recent_pattern) ==
    SelectSeq(plan_ids, LAMBDA w : ~InSeq(w, recent_pattern))

\* the direct-successor guard of the workout predictor
guard_workout(next_id, valid) ==
    IF ~InSeq(next_id, valid) /\ valid # <<>> THEN valid[1] ELSE next_id

\* steps 3-5: match the pattern against the repeated plan
match_workout(plan_ids, recent_pattern) ==
    LET n               == Len(plan_ids)
        repeats         == Max2(2, (Len(recent_pattern) \div n) + 2)
        repeated_plan   == Repeat(plan_ids, repeats)
        search_space    == SubSeq(repeated_plan, 1, Len(repeated_plan) - 1)
        found           == _find_closest_subsequence(search_space, recent_pattern)
        start_idx       == found[1]
        match_len       == found[2]
        last_workout_id == recent_pattern[Len(recent_pattern)]
        valid           == valid_next_ids(plan_ids, last_workout_id)
    IN
    IF start_idx = -1 \/ match_len = 0
    THEN LET last_pos == SetMax({i \in 0..(Len(repeated_plan) - 1) :
                                    At0(repeated_plan, i) = last_workout_id})
             next_id  == IF last_pos + 1 < Len(repeated_plan)
                         THEN At0(repeated_plan, last_pos + 1) ELSE plan_ids[1]
         IN guard_workout(next_id, valid)
    ELSE LET raw_pos  == start_idx + match_len
             next_pos == IF raw_pos >= Len(repeated_plan) THEN raw_pos % n ELSE raw_pos
         IN guard_workout(At0(repeated_plan, next_pos), valid)

\* prefer_missing without the missing-workout preference
prefer_missing_never(plan_ids, recent_pattern) ==
    match_workout(plan_ids, recent_pattern)

\* "Prefer any workout in the plan that hasn't been completed recently"
prefer_missing(plan_ids, recent_pattern) ==
    LET missing == missing_ids(plan_ids, recent_pattern)
    IN IF Len(missing) = 1 THEN missing[1]
       ELSE match_workout(plan_ids, recent_pattern)

predict_next_cardio_workout(routine_id) ==
    LET plan_ids       == workout_plan_ids(routine_id)
        recent_logs    == workout_recent_logs(routine_id)
        recent_pattern == workout_recent_pattern(routine_id)
    IN IF plan_ids = <<>> THEN None
       ELSE IF recent_logs = <<>> \/ recent_pattern = <<>> THEN plan_ids[1]
       ELSE prefer_missing(plan_ids, recent_pattern)

\* ------------------------------------------------------------------------
\* SpecPredict: configurations, logging and predictor calls
\* ------------------------------------------------------------------------

MaxLogs == 3
MaxPlanLen == 3

WorkoutIds == 1..4
PlanRoutines == 1..3     \* routine 4 is in no plan

\* one workout per routine (the routine predictor's configurations)
RoutineCatalogue ==
    [w \in WorkoutIds |-> [routine |-> w, priority_order |-> 1, skip |-> FALSE]]

\* every workout in routine 1: priorities that are dense, tied, gapped, unordered
PriorityVectors == {<<1, 2, 3, 3>>, <<1, 1, 2, 2>>, <<2, 1, 5, 3>>}

WorkoutCatalogues ==
    {[w \in WorkoutIds |-> [routine |-> 1, priority_order |-> pv[w],
                            skip |-> (w = 4 /\ s)]] :
        pv \in PriorityVectors, s \in BOOLEAN}

\* routine 1 with two workouts, routines 2 and 3 with one each
MixedCatalogue ==
    [w \in WorkoutIds |->
        [routine |-> IF w <= 2 THEN 1 ELSE w - 1, priority_order |-> IF w = 2 THEN 2 ELSE 1,
         skip |-> FALSE]]

\* plans of the repository's tests: [5K, Sprints, Rest, 5K, Sprints] and the HFT plan
TestPlans == {<<1, 2, 3, 1, 2>>, <<1, 2, 3, 1, 3, 1, 2>>}

Plans == SeqsUpTo(PlanRoutines, MaxPlanLen) \cup TestPlans

NoCall == [fn |-> "none", arg |-> None, val |-> None]

InitPredict ==
    /\ \/ /\ workouts = RoutineCatalogue
          /\ plan \in Plans
          /\ skip_marathon_weekdays \in BOOLEAN
       \/ /\ workouts \in WorkoutCatalogues
          /\ plan = <<1>>
          /\ skip_marathon_weekdays = FALSE
       \/ /\ workouts = MixedCatalogue
          /\ plan \in {<<1, 2>>, <<2, 1, 1>>}
          /\ skip_marathon_weekdays = FALSE
    /\ logs = <<>>
    /\ predicted = NoCall
    /\ IdleBut({"predict"})

\* a session is logged (CardioDailyLog row with the newest datetime_started)
LogWorkout(w) ==
    /\ Len(logs) < MaxLogs
    /\ logs' = Append(logs, w)
    /\ predicted' = NoCall
    /\ UNCHANGED <<workouts, plan, skip_marathon_weekdays>>
    /\ UNCHANGED predOthers

CallPredictRoutine ==
    /\ predicted' = [fn |-> "routine", arg |-> None, val |-> predict_next_cardio_routine]
    /\ UNCHANGED <<workouts, plan, logs, skip_marathon_weekdays>>
    /\ UNCHANGED predOthers

CallPredictWorkout(routine_id) ==
    /\ predicted' = [fn |-> "workout", arg |-> routine_id,
                     val |-> predict_next_cardio_workout(routine_id)]
    /\ UNCHANGED <<workouts, plan, logs, skip_marathon_weekdays>>
    /\ UNCHANGED predOthers

RoutineIds == {workouts[w].routine : w \in DOMAIN workouts}

NextPredict ==
    \/ \E w \in WorkoutIds : LogWorkout(w)
    \/ CallPredictRoutine
    \/ \E r \in RoutineIds : CallPredictWorkout(r)

SpecPredict == InitPredict /\ [][NextPredict]_vars

\* ------------------------------------------------------------------------
\* Properties of the predictors
\* ------------------------------------------------------------------------

\* x is plan_ids[(i + 1) mod N] for some position i at which item occurs
IsDirectSuccessor(plan_ids, item, x) ==
    \E i \in 1..Len(plan_ids) :
        plan_ids[i] = item /\ plan_ids[(i % Len(plan_ids)) + 1] = x

InPlanOnly(history, plan_ids) == SelectSeq(history, LAMBDA x : InSeq(x, plan_ids))

LastOf(s) == s[Len(s)]

RoutineLogs(routine_id) == SelectSeq(logs, LAMBDA w : workouts[w].routine = routine_id)

Distinct(s) == \A i, j \in 1..Len(s) : s[i] = s[j] => i = j

\* the entries of window are consecutive items of the plan in cyclic order
ConsecutiveCyclic(plan_ids, window) ==
    /\ window # <<>>
    /\ \A k \in 1..Len(window) : InSeq(window[k], plan_ids)
    /\ \A k \in 1..(Len(window) - 1) :
           IsDirectSuccessor(plan_ids, window[k], window[k + 1])

C8_Original ==
    /\ (/\ predicted.fn = "routine"
        /\ Distinct(plan)
        /\ ConsecutiveCyclic(plan, LastN(LogRoutineIds, Len(plan))))
       => IsDirectSuccessor(plan, LastOf(LogRoutineIds), predicted.val)
    /\ (/\ predicted.fn = "workout"
        /\ ConsecutiveCyclic(workout_plan_ids(predicted.arg),
                             LastN(RoutineLogs(predicted.arg), max_priority(predicted.arg))))
       => IsDirectSuccessor(workout_plan_ids(predicted.arg),
                            LastOf(RoutineLogs(predicted.arg)), predicted.val)

\* C8 amended: the same, provided the weekday rule does not exclude the
\* successor routine (the rule is inactive or the successor is no marathon
\* routine); the workout predictor has no such rule.
C8_CycleContinuation ==
    /\ (/\ predicted.fn = "routine"
        /\ Distinct(plan)
        /\ ConsecutiveCyclic(plan, LastN(LogRoutineIds, Len(plan)))
        /\ \A x \in MarathonRoutines :
              skip_marathon_weekdays => ~IsDirectSuccessor(plan, LastOf(LogRoutineIds), x))
       => IsDirectSuccessor(plan, LastOf(LogRoutineIds), predicted.val)
    /\ (/\ predicted.fn = "workout"
        /\ ConsecutiveCyclic(workout_plan_ids(predicted.arg),
                             LastN(RoutineLogs(predicted.arg), max_priority(predicted.arg))))
       => IsDirectSuccessor(workout_plan_ids(predicted.arg),
                            LastOf(RoutineLogs(predicted.arg)), predicted.val)

\* plan [A,B,C], history C,A,B: the window wraps the cycle, next is C
C8_Witness ==
    /\ predicted.fn = "routine"
    /\ plan = <<1, 2, 3>>
    /\ logs = <<3, 1, 2>>
    /\ ~skip_marathon_weekdays
    /\ predicted.val = 3

\* C9: in predict_next_cardio_workout, when the window of the routine's M most
\* recent logs holds an in-plan workout and exactly one non-skipped plan
\* workout does not appear in it, that workout is returned.
C9_MissingItemFastPath ==
    predicted.fn = "workout" =>
        LET planset == {w \in DOMAIN workouts :
                           workouts[w].routine = predicted.arg /\ ~workouts[w].skip}
            window  == LastN(RoutineLogs(predicted.arg), max_priority(predicted.arg))
            absent  == {w \in planset : ~InSeq(w, window)}
        IN (/\ \E w \in planset : InSeq(w, window)
            /\ Cardinality(absent) = 1)
           => predicted.val \in absent

\* the test test_prefers_workout_not_done_recently: W1 then W3 logged, W2 returned
C9_Witness ==
    /\ predicted.fn = "workout"
    /\ predicted.arg = 1
    /\ workout_plan_ids(1) = <<1, 2, 3>>
    /\ logs = <<1, 3>>
    /\ predicted.val = 2

\* ------------------------------------------------------------------------
\* get_next_progression_for_workout
\* ------------------------------------------------------------------------

Abs(x) == IF x < 0 THEN -x ELSE x

\* the loop "for c in candidates[1:]" (k is the 1-based position of c)
RECURSIVE NearestFold(_, _, _, _)
NearestFold(value, candidates, k, best_val) ==
    IF k > Len(candidates) THEN best_val
    ELSE LET c         == candidates[k]
             d         == Abs(c - value)
             best_diff == Abs(best_val - value)
         IN NearestFold(value, candidates, k + 1,
                        IF d < best_diff \/ (d = best_diff /\ c < best_val)
                        THEN c ELSE best_val)

\* the nearest candidate, the higher one on a tie
_nearest_progression_upper(value, candidates) ==
    LET cs == {candidates[k] : k \in 1..Len(candidates)}
    IN CHOOSE c \in cs :
           \A o \in cs :
               \/ Abs(c - value) < Abs(o - value)
               \/ (Abs(c - value) = Abs(o - value) /\ c >= o)

_nearest_progression_value(value, candidates) ==
    NearestFold(value, candidates, 2, candidates[1])

get_closest_progression_value(target) ==
    IF progressions = <<>> THEN target
    ELSE _nearest_progression_value(target, progressions)

\* the filter without total_completed >= goal: missed sessions count too
eligible_logs_with_missed ==
    SelectSeq(cardio_logs, LAMBDA l : l.recent /\ l.goal # None /\ ~l.ignore)

\* logs inside the 26-week cutoff with a goal, not ignored, total_completed >= goal
eligible_logs ==
    SelectSeq(cardio_logs, LAMBDA l :
        l.recent /\ l.goal # None /\ ~l.ignore /\ l.total_completed >= l.goal)

\* values of the runs of equal neighbours, in ladder order
unique_vals ==
    LET starts == [i \in 1..Len(progressions) |->
                      IF i = 1 \/ progressions[i] # progressions[i - 1]
                      THEN progressions[i] ELSE None]
    IN SelectSeq(starts, LAMBDA v : v # None)

\* val_to_indices[v]: the 0-based indices of the last run of v (a new run overwrites)
val_to_indices(v) ==
    LET last  == SetMax({i \in 1..Len(progressions) : progressions[i] = v})
        first == CHOOSE a \in 1..last :
                     /\ \A k \in a..last : progressions[k] = v
                     /\ (a = 1 \/ progressions[a - 1] # v)
    IN [k \in 1..(last - first + 1) |-> first + k - 2]

\* the loop over the goals of the eligible logs, newest first (k walks backwards)
RECURSIVE CountSnapped(_, _, _, _)
CountSnapped(target_val, candidates, k, count) ==
    IF k < 1 THEN count
    ELSE IF _nearest_progression_value(eligible_logs[k].goal, candidates) # target_val
         THEN count
         ELSE CountSnapped(target_val, candidates, k - 1, count + 1)

\* a count that never finds a snapping log
_count_consecutive_none(target_val, candidates) == 0

_count_consecutive_snapped_to_progression(target_val, candidates) ==
    CountSnapped(target_val, candidates, Len(eligible_logs), 0)

\* the offset always clamped to the last copy of the band
copy_offset_last(consec, dup_count) == dup_count - 1

\* copy_offset = consec if consec < dup_count else (dup_count - 1)
copy_offset(consec, dup_count) ==
    IF consec < dup_count THEN consec ELSE dup_count - 1

\* "At the VERY END": the band of the value at the 3rd-to-last index
end_of_plan ==
    LET target_val   == IF Len(progressions) >= 3
                        THEN progressions[Len(progressions) - 2] ELSE progressions[1]
        band_indices == val_to_indices(target_val)
        dup_count    == Len(band_indices)
        consec       == _count_consecutive_snapped_to_progression(target_val, unique_vals)
    IN [idx |-> At0(band_indices, copy_offset(consec, dup_count)), reason |-> "end_of_plan"]

get_next_progression_for_workout ==
    IF progressions = <<>> THEN [idx |-> -1, reason |-> "no_progressions"]
    ELSE IF eligible_logs = <<>> THEN [idx |-> 0, reason |-> "no_recent_history"]
    ELSE
    LET lc           == eligible_logs[Len(eligible_logs)].total_completed
        snapped_val  == get_closest_progression_value(lc)
        best_idx     == SetMax({i \in 0..(Len(progressions) - 1) :
                                   At0(progressions, i) = snapped_val})
        band_indices == val_to_indices(snapped_val)
        dup_count    == Len(band_indices)
        consec       == _count_consecutive_snapped_to_progression(snapped_val, unique_vals)
    IN IF consec < dup_count
       THEN [idx |-> At0(band_indices, consec), reason |-> "duplicate_band"]
       ELSE IF best_idx < Len(progressions) - 1
       THEN [idx |-> best_idx + 1, reason |-> "advance_next_distinct"]
       ELSE end_of_plan

\* ------------------------------------------------------------------------
\* SpecLadder: a ladder, an earlier history, then rounds of "serve, log as achieved"
\* ------------------------------------------------------------------------

MaxLadderLen == 4
MaxHistory == 2
MaxServed == 4

LadderValues == {10, 20, 30}

\* ascending ladders, and the ladder of the documented example
Ladders ==
    {l \in SeqsUpTo(LadderValues, MaxLadderLen) :
        l # <<>> /\ \A i \in 1..(Len(l) - 1) : l[i] <= l[i + 1]}
    \cup {<<10, 10, 20, 20, 20, 30>>}

LogRow(g, c, i, r) == [goal |-> g, total_completed |-> c, ignore |-> i, recent |-> r]

\* earlier sessions: met, exceeded, off-ladder goal, missed, ignored, too old, no goal
LogShapes ==
    {LogRow(10, 10, FALSE, TRUE), LogRow(20, 20, FALSE, TRUE), LogRow(30, 30, FALSE, TRUE),
     LogRow(10, 20, FALSE, TRUE), LogRow(20, 30, FALSE, TRUE), LogRow(15, 20, FALSE, TRUE),
     LogRow(20, 10, FALSE, TRUE), LogRow(30, 30, TRUE, TRUE), LogRow(30, 30, FALSE, FALSE),
     LogRow(None, 20, FALSE, TRUE)}

NoSelection == [idx |-> -1, reason |-> "none"]

InitLadder ==
    /\ progressions \in Ladders
    /\ cardio_logs = <<>>
    /\ selected = NoSelection
    /\ trail = <<>>
    /\ IdleBut({"ladder"})

\* an earlier session of any shape; sessions older than the cutoff come first
LogOther(l) ==
    /\ trail = <<>>
    /\ Len(cardio_logs) < MaxHistory
    /\ l.recent \/ \A k \in 1..Len(cardio_logs) : ~cardio_logs[k].recent
    /\ cardio_logs' = Append(cardio_logs, l)
    /\ selected' = NoSelection
    /\ UNCHANGED <<progressions, trail>>
    /\ UNCHANGED ladderOthers

CallNextProgression ==
    /\ selected' = get_next_progression_for_workout
    /\ UNCHANGED <<progressions, cardio_logs, trail>>
    /\ UNCHANGED ladderOthers

\* the served goal is logged as achieved: goal = served value, total_completed = goal
LogServed ==
    /\ selected.idx >= 0
    /\ Len(trail) < MaxServed
    /\ LET v == At0(progressions, selected.idx)
       IN cardio_logs' = Append(cardio_logs, LogRow(v, v, FALSE, TRUE))
    /\ trail' = Append(trail, selected.idx)
    /\ selected' = NoSelection
    /\ UNCHANGED progressions
    /\ UNCHANGED ladderOthers

NextLadder ==
    \/ \E l \in LogShapes : LogOther(l)
    \/ CallNextProgression
    \/ LogServed

SpecLadder == InitLadder /\ [][NextLadder]_vars

\* ------------------------------------------------------------------------
\* Properties of the progression ladder
\* ------------------------------------------------------------------------

ContiguousBands(ps) ==
    \A i, j \in 1..Len(ps) :
        (i < j /\ ps[i] = ps[j]) => \A k \in i..j : ps[k] = ps[i]

BandSize(ps, v) == Cardinality({i \in 1..Len(ps) : ps[i] = v})

DistinctValues(ps) == {ps[i] : i \in 1..Len(ps)}

\* the indices served so far in this run, the latest call included
Served == IF selected.idx >= 0 THEN Append(trail, selected.idx) ELSE trail

\* how many of the latest serves in a row had the value v
TrailingRun(s, v) ==
    SetMax({n \in 0..Len(s) :
               \A k \in (Len(s) - n + 1)..Len(s) : At0(progressions, s[k]) = v})

\* the (up to) three highest distinct values of the ladder
LastThreeDistinct(ps) ==
    {v \in DistinctValues(ps) : Cardinality({u \in DistinctValues(ps) : u > v}) <= 2}

\* C2 as stated: on a ladder with contiguous bands (and more than one value),
\* each log with goal = served value and achieved = goal moves the result
\* forward by exactly one position inside the band, and a band value is served
\* no more times in a row than the size of its band.
C2_Original ==
    (/\ ContiguousBands(progressions)
     /\ Cardinality(DistinctValues(progressions)) >= 2
     /\ selected.idx >= 0
     /\ trail # <<>>)
    => LET prev == LastOf(trail)
           cur  == selected.idx
       IN /\ (/\ prev + 1 < Len(progressions)
              /\ At0(progressions, prev + 1) = At0(progressions, prev))
             => cur = prev + 1
          /\ TrailingRun(Served, At0(progressions, cur))
                <= BandSize(progressions, At0(progressions, cur))

\* ladder [10,20,20,20]: the band value 20 (size 3) is served a fourth time
C2_Witness ==
    /\ progressions = <<10, 20, 20, 20>>
    /\ trail = <<1, 2, 3>>
    /\ selected = [idx |-> 3, reason |-> "end_of_plan"]

\* C3 as stated: once the top of the ladder has been reached and every served
\* goal keeps being logged as achieved, the served values stay among the last
\* three distinct ladder values, the index stays inside the ladder, and (on a
\* ladder with more than one value) the result is never frozen on one value:
\* no value is served more often in a row than the ladder has entries.
C3_Original ==
    selected.idx >= 0 =>
        /\ selected.idx \in 0..(Len(progressions) - 1)
        /\ (\E k \in 1..Len(trail) : trail[k] = Len(progressions) - 1)
           => At0(progressions, selected.idx) \in LastThreeDistinct(progressions)
        /\ Cardinality(DistinctValues(progressions)) >= 2
           => TrailingRun(Served, At0(progressions, selected.idx)) <= Len(progressions)

\* ladder [10,20,20,20]: every round ends on the top index again
C3_Witness ==
    /\ progressions = <<10, 20, 20, 20>>
    /\ trail = <<3, 3, 3, 3>>
    /\ selected = [idx |-> 3, reason |-> "end_of_plan"]

\* ------------------------------------------------------------------------
\* RestBackfillService.ensure_backfilled
\* ------------------------------------------------------------------------

debounce_seconds == 300

\* the debounce test with the boundary instant still inside the window
in_debounce_window_inclusive(now, last_run_at) ==
    last_run_at # None /\ now - last_run_at <= debounce_seconds

\* self._last_run_at is not None and (now - self._last_run_at) < self._debounce
in_debounce_window(now, last_run_at) ==
    last_run_at # None /\ now - last_run_at < debounce_seconds

\* the recheck inside the lock, with the lock acquired, never skipping
recheck_never(t) == FALSE

\* "Recheck inside the lock in case another thread just ran it"
recheck_skips(t) ==
    ~call[t].force /\ in_debounce_window(call[t].now, _last_run_at)

\* ------------------------------------------------------------------------
\* SpecDebounce: two request threads calling ensure_backfilled
\* ------------------------------------------------------------------------

MaxTicks == 4
MaxCreated == 2

Threads == {"t1", "t2"}

\* call times, half a debounce interval apart
Times == {k * (debounce_seconds \div 2) : k \in 1..MaxTicks}

Unlocked == "unlocked"

NotSeen == [at |-> "none", last |-> None]

InProgress(t) == pc[t] \notin {"idle", "done"}

InitDebounce ==
    /\ pc = [t \in Threads |-> "idle"]
    /\ call = [t \in Threads |-> [now |-> None, force |-> FALSE]]
    /\ _last_run_at = None
    /\ _run_lock = Unlocked
    /\ seen = [t \in Threads |-> NotSeen]
    /\ ran = [t \in Threads |-> FALSE]
    /\ created = [t \in Threads |-> 0]
    /\ n_created = 0
    /\ overlap = FALSE
    /\ IdleBut({"debounce"})

\* a request enters ensure_backfilled(now, force)
Begin(t, now, force) ==
    /\ ~InProgress(t)
    /\ pc' = [pc EXCEPT ![t] = "check"]
    /\ call' = [call EXCEPT ![t] = [now |-> now, force |-> force]]
    /\ seen' = [seen EXCEPT ![t] = NotSeen]
    /\ ran' = [ran EXCEPT ![t] = FALSE]
    /\ created' = [created EXCEPT ![t] = 0]
    /\ overlap' = \E u \in Threads \ {t} : InProgress(u)
    /\ UNCHANGED <<_last_run_at, _run_lock, n_created>>
    /\ UNCHANGED debounceOthers

\* the check before the lock is taken
FirstCheck(t) ==
    /\ pc[t] = "check"
    /\ IF ~call[t].force /\ in_debounce_window(call[t].now, _last_run_at)
       THEN /\ pc' = [pc EXCEPT ![t] = "done"]
            /\ seen' = [seen EXCEPT ![t] = [at |-> "first", last |-> _last_run_at]]
       ELSE /\ pc' = [pc EXCEPT ![t] = "acquire"]
            /\ UNCHANGED seen
    /\ UNCHANGED <<call, _last_run_at, _run_lock, ran, created, n_created, overlap>>
    /\ UNCHANGED debounceOthers

\* with self._run_lock
Acquire(t) ==
    /\ pc[t] = "acquire"
    /\ _run_lock = Unlocked
    /\ _run_lock' = t
    /\ pc' = [pc EXCEPT ![t] = "recheck"]
    /\ UNCHANGED <<call, _last_run_at, seen, ran, created, n_created, overlap>>
    /\ UNCHANGED debounceOthers

Recheck(t) ==
    /\ pc[t] = "recheck"
    /\ seen' = [seen EXCEPT ![t] = [at |-> "locked", last |-> _last_run_at]]
    /\ IF recheck_skips(t)
       THEN /\ pc' = [pc EXCEPT ![t] = "done"]
            /\ _run_lock' = Unlocked
       ELSE /\ pc' = [pc EXCEPT ![t] = "run"]
            /\ UNCHANGED _run_lock
    /\ UNCHANGED <<call, _last_run_at, ran, created, n_created, overlap>>
    /\ UNCHANGED debounceOthers

\* created = backfill_rest_days_if_gap(now=now): k rest logs are inserted
RunBackfill(t, k) ==
    /\ pc[t] = "run"
    /\ n_created + k <= MaxCreated
    /\ ran' = [ran EXCEPT ![t] = TRUE]
    /\ created' = [created EXCEPT ![t] = k]
    /\ n_created' = n_created + k
    /\ pc' = [pc EXCEPT ![t] = "stamp"]
    /\ UNCHANGED <<call, _last_run_at, _run_lock, seen, overlap>>
    /\ UNCHANGED debounceOthers

\* self._last_run_at = now
Stamp(t) ==
    /\ pc[t] = "stamp"
    /\ _last_run_at' = call[t].now
    /\ pc' = [pc EXCEPT ![t] = "release"]
    /\ UNCHANGED <<call, _run_lock, seen, ran, created, n_created, overlap>>
    /\ UNCHANGED debounceOthers

\* return created: the with block releases the lock
Release(t) ==
    /\ pc[t] = "release"
    /\ _run_lock' = Unlocked
    /\ pc' = [pc EXCEPT ![t] = "done"]
    /\ UNCHANGED <<call, _last_run_at, seen, ran, created, n_created, overlap>>
    /\ UNCHANGED debounceOthers

NextDebounce ==
    \/ \E t \in Threads, now \in Times, force \in BOOLEAN : Begin(t, now, force)
    \/ \E t \in Threads : FirstCheck(t)
    \/ \E t \in Threads : Acquire(t)
    \/ \E t \in Threads : Recheck(t)
    \/ \E t \in Threads, k \in {0, 1} : RunBackfill(t, k)
    \/ \E t \in Threads : Stamp(t)
    \/ \E t \in Threads : Release(t)

SpecDebounce == InitDebounce /\ [][NextDebounce]_vars

\* ------------------------------------------------------------------------
\* Properties of the debounced backfill
\* ------------------------------------------------------------------------

\* C4: a call with force=False whose now is less than 300 s after the time t
\* of the latest run (the _last_run_at its deciding check read) returns the
\* empty list without executing backfill_rest_days_if_gap and creates no
\* records; a call with now >= t + 300 (or before any run) executes it.
C4_DebounceIdempotence ==
    \A t \in Threads :
        (pc[t] = "done" /\ ~call[t].force) =>
            /\ (seen[t].last # None /\ call[t].now < seen[t].last + 300)
               => (~ran[t] /\ created[t] = 0)
            /\ (seen[t].last = None \/ call[t].now >= seen[t].last + 300)
               => ran[t]

\* a second call 150 s after a run at 300 returned [] at the first check
C4_Witness ==
    \E t \in Threads :
        /\ pc[t] = "done"
        /\ ~overlap
        /\ ~call[t].force
        /\ call[t].now = 450
        /\ seen[t] = [at |-> "first", last |-> 300]
        /\ ~ran[t]
        /\ created[t] = 0
        /\ n_created > 0

Missing == -1

Quot(a, b) == <<a, b>>

\* a null column that otherwise holds a quotient
NoQuot == Quot(0, 0)

\* round(a / b, 3) on values scaled by 1000: nearest integer of a / b
RoundDiv(a, b) == (2 * a + b) \div (2 * b)

_to_minutes_row(d) == d.interval

_tm_to_minutes_row(d) == d.tm

_recalc_mph(d) ==
    IF d.miles = Missing \/ _to_minutes_row(d) = Missing \/ _to_minutes_row(d) <= 0
    THEN [d EXCEPT !.mph = Missing]
    ELSE [d EXCEPT !.mph = RoundDiv(d.miles * 60 * 1000, _to_minutes_row(d))]

\* "interval or 0.0"
OrZero(x) == IF x = Missing THEN 0 ELSE x

\* the loop "for idx, d in enumerate(rows)" (idx is 1-based here)
RECURSIVE NormalizeFrom(_, _, _)
NormalizeFrom(rows, idx, prev_tm) ==
    IF idx > Len(rows) THEN <<>>
    ELSE LET d        == rows[idx]
             tm       == _tm_to_minutes_row(d)
             interval == _to_minutes_row(d)
             new_tm   == IF idx = 1
                         THEN IF tm # Missing THEN Max2(0, tm) ELSE Max2(0, OrZero(interval))
                         ELSE IF tm # Missing
                              THEN IF tm < prev_tm THEN prev_tm ELSE tm
                              ELSE prev_tm + OrZero(interval)
             new_int  == IF idx # 1 /\ tm # Missing
                         THEN Max2(0, new_tm - prev_tm) ELSE d.interval
         IN <<_recalc_mph([d EXCEPT !.tm = new_tm, !.interval = new_int])>>
            \o NormalizeFrom(rows, idx + 1, new_tm)

\* the rows as normalize_treadmill_cumulative leaves them (bulk_update)
normalize_rows(rows) == NormalizeFrom(rows, 1, 0)

\* the loop "for d in details" of recompute_log_aggregates; sums of hours in minutes
RECURSIVE AggFold(_, _, _)
AggFold(rows, k, acc) ==
    IF k > Len(rows) THEN acc
    ELSE LET d     == rows[k]
             mins  == _to_minutes_row(d)
             timed == mins # Missing /\ mins # 0
             a1    == IF mins # Missing
                      THEN [acc EXCEPT !.have_minutes = TRUE, !.total_minutes = @ + mins]
                      ELSE acc
             a2    == IF d.miles # Missing
                      THEN [a1 EXCEPT !.have_miles = TRUE, !.total_miles = @ + d.miles]
                      ELSE a1
             a3    == IF d.mph # Missing
                      THEN [a2 EXCEPT
                               !.num = @ + (IF timed THEN d.mph * mins ELSE d.mph * 60),
                               !.den = @ + (IF timed THEN mins ELSE 60),
                               !.max_mph = IF @ = Missing \/ @ = 0
                                           THEN d.mph ELSE Max2(@, d.mph)]
                      ELSE a2
         IN AggFold(rows, k + 1, a3)

AggStart ==
    [have_minutes |-> FALSE, total_minutes |-> 0, have_miles |-> FALSE, total_miles |-> 0,
     num |-> 0, den |-> 0, max_mph |-> Missing]

\* "choose Total Completed by the workout's unit", then the fallback rules
total_completed_of(acc) ==
    LET by_unit ==
            IF unit.type = "time"
            THEN IF acc.have_minutes THEN Quot(acc.total_minutes, 1) ELSE NoQuot
            ELSE IF unit.type = "distance"
            THEN IF acc.have_miles /\ unit.miles_per_unit > 0
                 THEN Quot(acc.total_miles, unit.miles_per_unit) ELSE NoQuot
            ELSE NoQuot
    IN IF by_unit # NoQuot THEN by_unit
       ELSE IF acc.have_minutes THEN Quot(acc.total_minutes, 1)
       ELSE IF acc.have_miles THEN Quot(acc.total_miles, 1)
       ELSE NoQuot

\* the values recompute_log_aggregates writes to the log
recompute_log_aggregates(rows) ==
    LET acc == AggFold(rows, 1, AggStart)
    IN [max_mph         |-> acc.max_mph,
        avg_mph         |-> IF acc.den > 0 THEN Quot(acc.num, acc.den) ELSE NoQuot,
        total_completed |-> total_completed_of(acc),
        minutes_elapsed |-> IF rows = <<>> THEN 0
                            ELSE OrZero(_tm_to_minutes_row(rows[Len(rows)]))]

\* CardioLogDetailsCreateView.post leaving the aggregates as they were
details_create_view_stale(old, rows) == old

\* CardioLogDetailsCreateView.post: "recompute mph and log aggregates"
details_create_view_stored(old, rows) == recompute_log_aggregates(rows)

\* receiver _detail_deleted: rows after normalize_treadmill_cumulative
_detail_deleted(rows) == normalize_rows(rows)

\* receiver _detail_saved: rows after normalize_treadmill_cumulative
_detail_saved(rows) == normalize_rows(rows)

\* ------------------------------------------------------------------------
\* SpecAgg: one cardio log, its detail rows and the operations on them
\* ------------------------------------------------------------------------

MaxRows == 2
MaxBulk == 2
MaxMinutes == 120

Row(i, mi, mp, t) == [interval |-> i, miles |-> mi, mph |-> mp, tm |-> t]

\* posted rows: interval row, treadmill row, speed only, zero-length interval
RowShapes ==
    {Row(30, 3, 6000, Missing), Row(Missing, 6, Missing, 90), Row(Missing, Missing, 4000, Missing),
     Row(0, 3, 6000, Missing)}

\* partial updates of one row
Patches == {[interval |-> 60], [tm |-> 30], [miles |-> Missing]}

Units ==
    {[type |-> "time", miles_per_unit |-> 0], [type |-> "distance", miles_per_unit |-> 3],
     [type |-> "none", miles_per_unit |-> 0]}

NoAggregates ==
    [max_mph |-> Missing, avg_mph |-> NoQuot, total_completed |-> NoQuot,
     minutes_elapsed |-> Missing]

\* aggregate columns a client may post with a new log
PostedAggregates ==
    {NoAggregates,
     [max_mph |-> 7000, avg_mph |-> NoQuot, total_completed |-> Quot(5, 1),
      minutes_elapsed |-> Missing]}

Batches == {b \in SeqsUpTo(RowShapes, MaxBulk) : b # <<>>}

InsertAt(rows, pos, batch) ==
    SubSeq(rows, 1, pos) \o batch \o SubSeq(rows, pos + 1, Len(rows))

RemoveAt(rows, i) == SubSeq(rows, 1, i - 1) \o SubSeq(rows, i + 1, Len(rows))

\* the row with the patched columns replaced
PatchRow(d, patch) ==
    [f \in DOMAIN d |-> IF f \in DOMAIN patch THEN patch[f] ELSE d[f]]

\* the treadmill clock of every row stays within the session length modelled
WithinSession(rows) == \A k \in 1..Len(rows) : rows[k].tm <= MaxMinutes

DetailOps == {"create_serializer", "create_view", "save", "update_view", "delete_view"}

InitAgg ==
    /\ unit \in Units
    /\ details = <<>>
    /\ stored = NoAggregates
    /\ last_op = "none"
    /\ IdleBut({"agg"})

\* CardioDailyLogCreateSerializer.create: the log, then its details in bulk
CreateLog(posted, batch) ==
    /\ last_op = "none"
    /\ details' = batch
    /\ stored' = IF batch # <<>> THEN recompute_log_aggregates(batch) ELSE posted
    /\ last_op' = IF batch # <<>> THEN "create_serializer" ELSE "create_log"
    /\ UNCHANGED unit
    /\ UNCHANGED aggOthers

\* CardioLogDetailsCreateView.post: bulk_create (no signals), then recompute
DetailsCreateView(batch, pos) ==
    /\ last_op # "none"
    /\ Len(details) + Len(batch) <= MaxRows
    /\ details' = InsertAt(details, pos, batch)
    /\ WithinSession(details')
    /\ stored' = details_create_view_stored(stored, details')
    /\ last_op' = "create_view"
    /\ UNCHANGED unit
    /\ UNCHANGED aggOthers

\* a single row saved through the ORM: post_save -> normalize -> recompute
DetailSave(row, pos) ==
    /\ last_op # "none"
    /\ Len(details) < MaxRows
    /\ details' = _detail_saved(InsertAt(details, pos, <<row>>))
    /\ WithinSession(details')
    /\ stored' = recompute_log_aggregates(details')
    /\ last_op' = "save"
    /\ UNCHANGED unit
    /\ UNCHANGED aggOthers

\* CardioLogDetailUpdateView.patch: ser.save() (post_save), then recompute
DetailUpdateView(i, patch) ==
    /\ details' = _detail_saved([details EXCEPT ![i] = PatchRow(@, patch)])
    /\ WithinSession(details')
    /\ stored' = recompute_log_aggregates(details')
    /\ last_op' = "update_view"
    /\ UNCHANGED unit
    /\ UNCHANGED aggOthers

\* CardioLogDetailDestroyView.delete: detail.delete() (post_delete), then recompute
DetailDestroyView(i) ==
    /\ details' = _detail_deleted(RemoveAt(details, i))
    /\ WithinSession(details')
    /\ stored' = recompute_log_aggregates(details')
    /\ last_op' = "delete_view"
    /\ UNCHANGED unit
    /\ UNCHANGED aggOthers

\* CardioLogRetrieveView.patch: max_mph written on the log itself
LogPatch(m) ==
    /\ last_op # "none"
    /\ stored' = [stored EXCEPT !.max_mph = m]
    /\ last_op' = "log_patch"
    /\ UNCHANGED <<unit, details>>
    /\ UNCHANGED aggOthers

NextAgg ==
    \/ \E posted \in PostedAggregates, batch \in Batches \cup {<<>>} : CreateLog(posted, batch)
    \/ \E batch \in Batches, pos \in 0..Len(details) : DetailsCreateView(batch, pos)
    \/ \E row \in RowShapes, pos \in 0..Len(details) : DetailSave(row, pos)
    \/ \E i \in 1..Len(details), patch \in Patches : DetailUpdateView(i, patch)
    \/ \E i \in 1..Len(details) : DetailDestroyView(i)
    \/ \E m \in {9000} : LogPatch(m)

SpecAgg == InitAgg /\ [][NextAgg]_vars

\* ------------------------------------------------------------------------
\* Properties of the aggregates
\* ------------------------------------------------------------------------

\* C6: after every cardio detail operation (bulk insert through the create
\* view or the log-create serializer, single-row save, update, delete) the
\* log's stored max_mph, avg_mph, total_completed and minutes_elapsed equal
\* what recompute_log_aggregates derives from the log's current detail rows.
C6_AggregatesFresh ==
    last_op \in DetailOps =>
        /\ stored.max_mph = recompute_log_aggregates(details).max_mph
        /\ stored.avg_mph = recompute_log_aggregates(details).avg_mph
        /\ stored.total_completed = recompute_log_aggregates(details).total_completed
        /\ stored.minutes_elapsed = recompute_log_aggregates(details).minutes_elapsed

\* rows inserted in bulk into a log whose max_mph had been overwritten by hand
C6_Witness ==
    /\ last_op = "create_view"
    /\ Len(details) = 2
    /\ details[1] = Row(30, 3, 6000, 30)
    /\ details[2] = Row(Missing, 6, Missing, 90)
    /\ stored.max_mph = 6000
    /\ stored.avg_mph # NoQuot
    /\ stored.total_completed # NoQuot
    /\ stored.minutes_elapsed = 90

\* ------------------------------------------------------------------------
\* get_mph_goal_for_workout and get_reps_per_hour_goal_for_routine
\* Speeds are hundredths of a mile per hour, a log's age is whole weeks
\* before now, a reps-per-hour rate is the exact quotient reps * 60 / minutes.
\* ------------------------------------------------------------------------

Strategies ==
    {"progression_max_avg", "progression_max_max", "routine_max_avg",
     "routine_max_max", "workout_max_avg", "workout_max_max"}

\* "avg" if strategy.endswith("_max_avg") else "max"
criterion(strategy) ==
    IF strategy \in {"progression_max_avg", "routine_max_avg", "workout_max_avg"}
    THEN "avg" ELSE "max"

scope(strategy) ==
    IF strategy \in {"workout_max_avg", "workout_max_max"} THEN "workout"
    ELSE IF strategy \in {"routine_max_avg", "routine_max_max"} THEN "routine"
    ELSE "progression"

mph_cutoff_weeks == 26

rph_cutoff_weeks == 8

\* CardioWorkout rows by id: two workouts of one routine, the second harder
GoalWorkouts ==
    <<[routine |-> 1, difficulty |-> 2],
      [routine |-> 1, difficulty |-> 3]>>

\* CardioProgression.progression of every workout, by progression_order
GoalProgressions == <<1, 3>>

\* VwStrengthProgression.daily_volume of the routine, by progression_order
StrengthProgressions == <<50, 100>>

\* only the rows on or after the cutoff, with no row to fall back on
_restrict_to_recent_only(rows, qs, cutoff) ==
    {i \in qs : rows[i].weeks_ago <= cutoff}

\* rows of qs (indices into the table) on or after the cutoff, else the latest
_restrict_to_recent_or_last(rows, qs, cutoff) ==
    LET recent_qs == {i \in qs : rows[i].weeks_ago <= cutoff}
    IN IF recent_qs # {} THEN recent_qs
       ELSE IF qs = {} THEN {}
       ELSE {SetMax(qs)}

\* the tenth at or below x
round_half_up_1_floor(x) ==
    IF x = Missing THEN 0 ELSE (x \div 10) * 10

\* the nearest tenth, a half going up: a whole tenth stays where it is
round_half_up_1_nearest(x) ==
    IF x = Missing THEN 0 ELSE ((x + 5) \div 10) * 10

\* (floor(x / step) + 1) * step with step 0.1: always above x
round_half_up_1(x) ==
    IF x = Missing THEN 0 ELSE ((x \div 10) + 1) * 10

base_logs_qs(workout_id) ==
    {i \in DOMAIN daily_logs :
        /\ GoalWorkouts[daily_logs[i].workout].difficulty
               >= GoalWorkouts[workout_id].difficulty
        /\ ~daily_logs[i].ignore
        /\ IF scope(mph_goal_strategy) = "routine"
           THEN GoalWorkouts[daily_logs[i].workout].routine
                    = GoalWorkouts[workout_id].routine
           ELSE daily_logs[i].workout = workout_id}

mph_logs_qs(workout_id) ==
    _restrict_to_recent_or_last(daily_logs, base_logs_qs(workout_id), mph_cutoff_weeks)

progs(total_completed_input) ==
    IF scope(mph_goal_strategy) = "progression" /\ total_completed_input # Missing
    THEN GoalProgressions ELSE <<>>

mph_snapped_input(total_completed_input) ==
    IF progs(total_completed_input) # <<>>
    THEN _nearest_progression_value(total_completed_input, progs(total_completed_input))
    ELSE Missing

\* the rows iter_candidates yields
iter_candidates(workout_id, total_completed_input) ==
    {i \in mph_logs_qs(workout_id) :
        mph_snapped_input(total_completed_input) # Missing =>
            /\ daily_logs[i].total_completed # Missing
            /\ _nearest_progression_value(daily_logs[i].total_completed,
                                          progs(total_completed_input))
                   = mph_snapped_input(total_completed_input)}

criterion_value(i) ==
    IF criterion(mph_goal_strategy) = "avg"
    THEN daily_logs[i].avg_mph ELSE daily_logs[i].max_mph

\* "for row in iter_candidates()": newest row first, i is the row's position
RECURSIVE SelectBest(_, _, _)
SelectBest(candidates, i, best) ==
    IF i = 0 THEN best
    ELSE IF i \notin candidates \/ criterion_value(i) = Missing
         THEN SelectBest(candidates, i - 1, best)
    ELSE IF best = None \/ criterion_value(i) > criterion_value(best)
         THEN SelectBest(candidates, i - 1, i)
    ELSE SelectBest(candidates, i - 1, best)

get_mph_goal_for_workout(workout_id, total_completed_input) ==
    LET logs_qs == mph_logs_qs(workout_id)
        chosen  == SelectBest(iter_candidates(workout_id, total_completed_input),
                              Len(daily_logs), None)
        used_fallback == chosen = None
        best    == IF used_fallback THEN SetMax(logs_qs) ELSE chosen
        mph_goal     == round_half_up_1(daily_logs[best].max_mph)
        mph_goal_avg == round_half_up_1(daily_logs[best].avg_mph)
    IN IF logs_qs = {}
       THEN [max |-> 0, avg |-> 0, selected |-> None, used_fallback |-> TRUE]
       ELSE [max |-> IF mph_goal_avg # 0 /\ mph_goal = mph_goal_avg
                     THEN mph_goal_avg + 10 ELSE mph_goal,
             avg |-> mph_goal_avg,
             selected |-> best,
             used_fallback |-> used_fallback]

\* ---- get_reps_per_hour_goal_for_routine ----

strength_logs_qs ==
    _restrict_to_recent_or_last(strength_logs,
                                {i \in DOMAIN strength_logs : ~strength_logs[i].ignore},
                                rph_cutoff_weeks)

\* total_f / hours with hours = minutes_f / 60.0
rate_of(i) ==
    Quot(strength_logs[i].total_reps_completed * 60, strength_logs[i].minutes_elapsed)

QuotLeq(a, b) == a[1] * b[2] <= b[1] * a[2]

RECURSIVE GCD(_, _)
GCD(a, b) == IF b = 0 THEN a ELSE GCD(b, a % b)

\* the sum of two quotients, in lowest terms
QuotAdd(a, b) ==
    LET n == a[1] * b[2] + b[1] * a[2]
        d == a[2] * b[2]
        g == GCD(n, d)
    IN Quot(n \div g, d \div g)

\* rows whose rate is appended to all_rates
all_rates ==
    {i \in strength_logs_qs :
        /\ strength_logs[i].total_reps_completed # Missing
        /\ strength_logs[i].minutes_elapsed # Missing
        /\ strength_logs[i].minutes_elapsed > 0
        /\ strength_logs[i].total_reps_completed > 0}

rph_snapped_input(total_volume_input) ==
    IF total_volume_input # Missing /\ StrengthProgressions # <<>>
    THEN _nearest_progression_value(total_volume_input, StrengthProgressions)
    ELSE Missing

matched_rates(total_volume_input) ==
    {i \in all_rates :
        /\ rph_snapped_input(total_volume_input) # Missing
        /\ _nearest_progression_value(strength_logs[i].total_reps_completed,
                                      StrengthProgressions)
               = rph_snapped_input(total_volume_input)}

rates_to_use(total_volume_input) ==
    IF Cardinality(matched_rates(total_volume_input)) >= 2
    THEN matched_rates(total_volume_input) ELSE all_rates

\* ceil(value / step) * step
round_up(value, step) ==
    IF value[1] <= 0 \/ step <= 0 THEN 0
    ELSE ((value[1] + value[2] * step - 1) \div (value[2] * step)) * step

max_rate_of(S) == rate_of(CHOOSE i \in S : \A j \in S : QuotLeq(rate_of(j), rate_of(i)))

RECURSIVE sum_rates(_)
sum_rates(S) ==
    IF S = {} THEN Quot(0, 1)
    ELSE LET i == SetMax(S) IN QuotAdd(rate_of(i), sum_rates(S \ {i}))

get_reps_per_hour_goal_for_routine(total_volume_input, round_step) ==
    LET use == rates_to_use(total_volume_input)
        total == sum_rates(use)
    IN IF strength_logs_qs = {} \/ use = {}
       THEN [max |-> 0, avg |-> 0]
       ELSE [max |-> round_up(max_rate_of(use), round_step),
             avg |-> round_up(Quot(total[1], total[2] * Cardinality(use)), round_step)]

\* ------------------------------------------------------------------------
\* Goals as a state machine: sessions are logged, goals are asked for
\* ------------------------------------------------------------------------

MaxGoalLogs == 3

CardioRow(w, ig, age, mx, av, tc) ==
    [workout |-> w, ignore |-> ig, weeks_ago |-> age,
     max_mph |-> mx, avg_mph |-> av, total_completed |-> tc]

CardioRowShapes ==
    {CardioRow(1, FALSE, 4, 1000, 500, 1),
     CardioRow(1, FALSE, 4, 705, 600, 1),
     CardioRow(1, FALSE, 4, 700, 700, 3),
     CardioRow(2, FALSE, 4, 1200, 600, 1),
     CardioRow(1, TRUE, 4, 1500, 900, 1),
     CardioRow(1, FALSE, 30, 1100, 800, 1),
     CardioRow(1, FALSE, 4, Missing, 650, 1),
     CardioRow(1, FALSE, 4, 900, Missing, Missing)}

StrengthRow(ig, age, reps, mins) ==
    [ignore |-> ig, weeks_ago |-> age,
     total_reps_completed |-> reps, minutes_elapsed |-> mins]

StrengthRowShapes ==
    {StrengthRow(FALSE, 2, 100, 60),
     StrengthRow(FALSE, 2, 90, 45),
     StrengthRow(FALSE, 2, 50, 15),
     StrengthRow(FALSE, 10, 300, 60),
     StrengthRow(TRUE, 2, 400, 60),
     StrengthRow(FALSE, 2, Missing, 60),
     StrengthRow(FALSE, 2, 60, 0)}

NoGoal ==
    [fn |-> "none", workout_id |-> None, input |-> Missing, round_step |-> 0,
     max |-> 0, avg |-> 0, selected |-> None, used_fallback |-> FALSE]

\* rows are appended in datetime order: a new row is no older than the last
Newer(rows, row) ==
    IF rows = <<>> THEN TRUE ELSE row.weeks_ago <= rows[Len(rows)].weeks_ago

InitGoal ==
    /\ mph_goal_strategy \in Strategies
    /\ daily_logs = <<>>
    /\ strength_logs = <<>>
    /\ goal = NoGoal
    /\ IdleBut({"goal"})

\* the two goal functions read different tables; one table is filled, and
\* asked about, at a time
LogCardio(row) ==
    /\ strength_logs = <<>>
    /\ Len(daily_logs) < MaxGoalLogs
    /\ Newer(daily_logs, row)
    /\ daily_logs' = Append(daily_logs, row)
    /\ goal' = NoGoal
    /\ UNCHANGED <<mph_goal_strategy, strength_logs>>
    /\ UNCHANGED goalOthers

LogStrength(row) ==
    /\ daily_logs = <<>>
    /\ Len(strength_logs) < MaxGoalLogs
    /\ Newer(strength_logs, row)
    /\ strength_logs' = Append(strength_logs, row)
    /\ goal' = NoGoal
    /\ UNCHANGED <<mph_goal_strategy, daily_logs>>
    /\ UNCHANGED goalOthers

CallMphGoal(workout_id, total_completed_input) ==
    /\ strength_logs = <<>>
    /\ LET r == get_mph_goal_for_workout(workout_id, total_completed_input)
       IN goal' = [fn |-> "mph", workout_id |-> workout_id,
                   input |-> total_completed_input, round_step |-> 0,
                   max |-> r.max, avg |-> r.avg,
                   selected |-> r.selected, used_fallback |-> r.used_fallback]
    /\ UNCHANGED <<mph_goal_strategy, daily_logs, strength_logs>>
    /\ UNCHANGED goalOthers

CallRphGoal(total_volume_input, round_step) ==
    /\ daily_logs = <<>>
    /\ LET r == get_reps_per_hour_goal_for_routine(total_volume_input, round_step)
       IN goal' = [fn |-> "rph", workout_id |-> None,
                   input |-> total_volume_input, round_step |-> round_step,
                   max |-> r.max, avg |-> r.avg,
                   selected |-> None, used_fallback |-> FALSE]
    /\ UNCHANGED <<mph_goal_strategy, daily_logs, strength_logs>>
    /\ UNCHANGED goalOthers

NextGoal ==
    \/ \E row \in CardioRowShapes : LogCardio(row)
    \/ \E row \in StrengthRowShapes : LogStrength(row)
    \/ \E workout_id \in {1, 2}, input \in {Missing, 1, 3} : CallMphGoal(workout_id, input)
    \/ \E input \in {Missing, 100}, round_step \in {1, 5} : CallRphGoal(input, round_step)

SpecGoal == InitGoal /\ [][NextGoal]_vars

\* ------------------------------------------------------------------------
\* Properties of the goals
\* ------------------------------------------------------------------------

\* the candidate rows of the latest mph call
MphCandidates == iter_candidates(goal.workout_id, goal.input)

\* row i has the highest avg_mph among the candidates (the newest such row)
TopAverage(i) ==
    /\ daily_logs[i].avg_mph # Missing
    /\ \A j \in MphCandidates :
           daily_logs[j].avg_mph # Missing =>
               \/ daily_logs[j].avg_mph < daily_logs[i].avg_mph
               \/ daily_logs[j].avg_mph = daily_logs[i].avg_mph /\ j <= i

RphCovered ==
    goal.fn = "rph" =>
        \A i \in rates_to_use(goal.input) : QuotLeq(rate_of(i), Quot(goal.max, 1))

\* C7 as stated: the max goal is at least the highest peak (max_mph, or
\* reps-per-hour rate) among the candidate logs, for every strategy.
C7_Original ==
    /\ goal.fn = "mph" =>
           \A i \in MphCandidates :
               daily_logs[i].max_mph # Missing => goal.max >= daily_logs[i].max_mph
    /\ RphCovered

\* C7: the reps-per-hour max goal is at least every rate it was computed
\* from; with a "max" criterion the mph max goal is at least the highest
\* max_mph among the candidate logs; with an "avg" criterion it is at least
\* the max_mph of the candidate with the highest avg_mph (the newest such),
\* which can be lower than another candidate's max_mph.
C7_GoalNonRegression ==
    /\ goal.fn = "mph" /\ criterion(mph_goal_strategy) = "max" =>
           \A i \in MphCandidates :
               daily_logs[i].max_mph # Missing => goal.max >= daily_logs[i].max_mph
    /\ goal.fn = "mph" /\ criterion(mph_goal_strategy) = "avg" =>
           \A i \in MphCandidates :
               TopAverage(i) /\ daily_logs[i].max_mph # Missing =>
                   goal.max >= daily_logs[i].max_mph
    /\ RphCovered

\* routine scope, max criterion: two workouts of the routine, the other
\* workout holds the best peak
C7_Witness ==
    /\ goal.fn = "mph"
    /\ mph_goal_strategy = "routine_max_max"
    /\ goal.workout_id = 1
    /\ daily_logs = <<CardioRow(1, FALSE, 4, 705, 600, 1),
                      CardioRow(2, FALSE, 4, 1200, 600, 1)>>
    /\ MphCandidates = {1, 2}
    /\ goal.max = 1210

\* ------------------------------------------------------------------------
\* Rest-day backfill: backfill_rest_days_if_gap, backfill_all_rest_day_gaps
\* Datetimes are whole hours (UTC); the calendar timezone is a fixed offset;
\* a local date is a day number.
\* ------------------------------------------------------------------------

thirty_two_hours == 32

\* timezone.localtime(dt, tz).date()
localdate(dt) == (dt + tz_offset) \div 24

\* timezone.localtime(dt, tz).timetz()
timetz(dt) == (dt + tz_offset) % 24

\* the composed datetime read as UTC instead of the calendar timezone
combine_utc(cursor_date, base_time) == cursor_date * 24 + base_time

\* _dt.combine(cursor_date, base_time), an aware datetime
combine(cursor_date, base_time) == cursor_date * 24 + base_time - tz_offset

\* every day of the logged span taken as a day with activity
existing_days_whole_span(rows) ==
    LET days == {localdate(l.datetime_started) : l \in rows}
    IN  IF days = {} THEN {} ELSE SetMin(days) .. SetMax(days)

\* the local dates that already have cardio activity
existing_days(rows) == {localdate(l.datetime_started) : l \in rows}

before_end_inclusive(day, exclusive_end_date) == day <= exclusive_end_date

\* the loop condition (cursor_date + timedelta(days=1)) < exclusive_end_date
before_end(day, exclusive_end_date) == day < exclusive_end_date

\* the while loop; acc holds the rows created so far (their datetime_started)
\* and existing_activity_days, which the loop extends in place
RECURSIVE DayLoop(_, _, _, _)
DayLoop(cursor_date, exclusive_end_date, base_time, acc) ==
    IF ~before_end(cursor_date + 1, exclusive_end_date) THEN acc
    ELSE IF (cursor_date + 1) \in acc.existing
         THEN DayLoop(cursor_date + 1, exclusive_end_date, base_time, acc)
    ELSE DayLoop(cursor_date + 1, exclusive_end_date, base_time,
                 [created  |-> Append(acc.created, combine(cursor_date + 1, base_time)),
                  existing |-> acc.existing \cup {cursor_date + 1}])

\* called with skip_if_activity=True and a set of existing days by both callers
_create_daily_rest_gaps(prev_dt, exclusive_end_date, time_strategy, next_dt_for_midpoint, acc) ==
    LET base_time ==
            IF time_strategy = "midpoint" /\ next_dt_for_midpoint # Missing
            THEN timetz(prev_dt + (next_dt_for_midpoint - prev_dt) \div 2)
            ELSE timetz(prev_dt)
    IN DayLoop(localdate(prev_dt), exclusive_end_date, base_time, acc)

\* order_by("datetime_started")
RECURSIVE SortedDts(_)
SortedDts(S) ==
    IF S = {} THEN <<>>
    ELSE LET first == CHOOSE x \in S : \A y \in S : x <= y
         IN <<first>> \o SortedDts(S \ {first})

\* "for i in range(1, len(logs))": i is the 1-based position of curr_dt
RECURSIVE FillBetween(_, _, _)
FillBetween(dts, i, acc) ==
    IF i > Len(dts) THEN acc
    ELSE FillBetween(dts, i + 1,
                     _create_daily_rest_gaps(dts[i - 1], localdate(dts[i]),
                                             "midpoint", dts[i], acc))

backfill_all_rest_day_gaps(now) ==
    IF ~rest_workout \/ gap_logs = {} THEN <<>>
    ELSE LET dts     == SortedDts({l.datetime_started : l \in gap_logs})
             between == FillBetween(dts, 2, [created  |-> <<>>,
                                             existing |-> existing_days(gap_logs)])
             prev_dt == dts[Len(dts)]
         IN IF (now - prev_dt) > thirty_two_hours
            THEN _create_daily_rest_gaps(prev_dt, localdate(now), "midpoint",
                                         now, between).created
            ELSE between.created

backfill_rest_days_if_gap(now) ==
    IF gap_logs = {} THEN <<>>
    ELSE LET last_log == SetMax({l.datetime_started : l \in gap_logs})
         IN IF now - last_log <= thirty_two_hours THEN <<>>
            ELSE IF ~rest_workout THEN <<>>
            ELSE _create_daily_rest_gaps(last_log, localdate(now), "prev", Missing,
                                         [created  |-> <<>>,
                                          existing |-> existing_days(gap_logs)]).created

\* ------------------------------------------------------------------------
\* The history as a state machine: time passes, sessions are logged (also
\* for past moments), the two backfills run with now = clock
\* ------------------------------------------------------------------------

MaxDays == 3

MaxGapLogs == 2

MaxRuns == 2

GapTimes == {8 * k : k \in 0..(3 * MaxDays)}

GapRow(dt, w) == [datetime_started |-> dt, workout |-> w]

RestRows(created_dts) == {GapRow(created_dts[k], "Rest") : k \in 1..Len(created_dts)}

InitGaps ==
    /\ rest_workout \in BOOLEAN
    /\ tz_offset \in {0, -5}
    /\ clock = 0
    /\ gap_logs = {}
    /\ gap_before = {}
    /\ returned = <<>>
    /\ run_counts = <<>>
    /\ gap_op = "none"
    /\ IdleBut({"gaps"})

Tick ==
    /\ clock + 8 \in GapTimes
    /\ clock' = clock + 8
    /\ run_counts' = <<>>
    /\ gap_op' = "tick"
    /\ UNCHANGED <<rest_workout, tz_offset, gap_logs, gap_before, returned>>
    /\ UNCHANGED gapOthers

LogSession(dt) ==
    /\ dt <= clock
    /\ Cardinality({l \in gap_logs : l.workout = "Run"}) < MaxGapLogs
    /\ GapRow(dt, "Run") \notin gap_logs
    /\ gap_logs' = gap_logs \cup {GapRow(dt, "Run")}
    /\ run_counts' = <<>>
    /\ gap_op' = "log"
    /\ UNCHANGED <<rest_workout, tz_offset, clock, gap_before, returned>>
    /\ UNCHANGED gapOthers

BackfillAll ==
    /\ Len(run_counts) < MaxRuns
    /\ LET created_rows == backfill_all_rest_day_gaps(clock)
       IN /\ gap_logs' = gap_logs \cup RestRows(created_rows)
          /\ returned' = created_rows
          /\ run_counts' = Append(run_counts, Len(created_rows))
    /\ gap_before' = gap_logs
    /\ gap_op' = "backfill_all"
    /\ UNCHANGED <<rest_workout, tz_offset, clock>>
    /\ UNCHANGED gapOthers

BackfillIfGap ==
    /\ gap_op # "backfill_if_gap"
    /\ LET created_rows == backfill_rest_days_if_gap(clock)
       IN /\ gap_logs' = gap_logs \cup RestRows(created_rows)
          /\ returned' = created_rows
    /\ gap_before' = gap_logs
    /\ run_counts' = <<>>
    /\ gap_op' = "backfill_if_gap"
    /\ UNCHANGED <<rest_workout, tz_offset, clock>>
    /\ UNCHANGED gapOthers

NextGaps ==
    \/ Tick
    \/ \E dt \in GapTimes : LogSession(dt)
    \/ BackfillAll
    \/ BackfillIfGap

SpecGaps == InitGaps /\ [][NextGaps]_vars

\* ------------------------------------------------------------------------
\* Properties of the backfill
\* ------------------------------------------------------------------------

\* every calendar day from the first log's day up to yesterday has a log
GapFree(rows, now) ==
    rows # {} =>
        \A day \in localdate(SortedDts({l.datetime_started : l \in rows})[1])
                       .. (localdate(now) - 1) :
            day \in existing_days(rows)

\* C10: backfill_all_rest_day_gaps run on a history in which every calendar
\* day from the first log's day up to yesterday has a cardio log creates no
\* record, and a run directly after another run with the same now creates
\* none either.
C10_GapFreeCreatesNothing ==
    gap_op = "backfill_all" =>
        /\ GapFree(gap_before, clock) => returned = <<>>
        /\ Len(run_counts) >= 2 => returned = <<>>

\* a first run filled two missing days, the second run at the same moment
\* found the history gap-free
C10_Witness ==
    /\ gap_op = "backfill_all"
    /\ tz_offset = -5
    /\ run_counts = <<2, 0>>
    /\ returned = <<>>
    /\ GapFree(gap_before, clock)
    /\ Cardinality({l \in gap_logs : l.workout = "Rest"}) = 2

\* ------------------------------------------------------------------------
\* Repeated predictor calls on one snapshot, on different days of the week
\* ------------------------------------------------------------------------

is_weekday_through_saturday(day) == day < 6

\* now.weekday() < 5 (Monday is 0)
is_weekday(day) == day < 5

\* bool(rules.skip_marathon_prep_weekdays) and now.weekday() < 5
skip_marathon_weekdays_on(day) == skip_marathon_prep_weekdays /\ is_weekday(day)

MaxRepeatLogs == 2

\* Thursday .. Sunday
RepeatDays == 3..6

NoRepeatCall == [fn |-> "none", arg |-> None, val |-> None, weekday |-> 0]

InitRepeat ==
    /\ workouts = MixedCatalogue
    /\ plan \in {<<1, 2, 3>>, <<1, 2, 3, 1, 2>>}
    /\ logs = <<>>
    /\ predicted = NoCall
    /\ skip_marathon_prep_weekdays \in BOOLEAN
    /\ weekday = 3
    /\ skip_marathon_weekdays = (skip_marathon_prep_weekdays /\ is_weekday(3))
    /\ earlier = NoRepeatCall
    /\ latest = NoRepeatCall
    /\ IdleBut({"predict", "repeat"})

\* a session is logged: the snapshot changes, earlier calls no longer compare
RepeatLog(w) ==
    /\ Len(logs) < MaxRepeatLogs
    /\ logs' = Append(logs, w)
    /\ predicted' = NoCall
    /\ earlier' = NoRepeatCall
    /\ latest' = NoRepeatCall
    /\ UNCHANGED <<workouts, plan, skip_marathon_weekdays, skip_marathon_prep_weekdays, weekday>>
    /\ UNCHANGED repeatOthers

\* midnight passes: later calls see the next weekday
NextDay ==
    /\ weekday + 1 \in RepeatDays
    /\ weekday' = weekday + 1
    /\ skip_marathon_weekdays' = skip_marathon_weekdays_on(weekday + 1)
    /\ UNCHANGED <<workouts, plan, logs, predicted, skip_marathon_prep_weekdays, earlier, latest>>
    /\ UNCHANGED repeatOthers

RepeatPredictRoutine ==
    /\ predicted' = [fn |-> "routine", arg |-> None, val |-> predict_next_cardio_routine]
    /\ latest' = [fn |-> "routine", arg |-> None,
                  val |-> predict_next_cardio_routine, weekday |-> weekday]
    /\ earlier' = latest
    /\ UNCHANGED <<workouts, plan, logs, skip_marathon_weekdays, skip_marathon_prep_weekdays, weekday>>
    /\ UNCHANGED repeatOthers

RepeatPredictWorkout(routine_id) ==
    /\ predicted' = [fn |-> "workout", arg |-> routine_id,
                     val |-> predict_next_cardio_workout(routine_id)]
    /\ latest' = [fn |-> "workout", arg |-> routine_id,
                  val |-> predict_next_cardio_workout(routine_id), weekday |-> weekday]
    /\ earlier' = latest
    /\ UNCHANGED <<workouts, plan, logs, skip_marathon_weekdays, skip_marathon_prep_weekdays, weekday>>
    /\ UNCHANGED repeatOthers

NextRepeat ==
    \/ \E w \in WorkoutIds : RepeatLog(w)
    \/ NextDay
    \/ RepeatPredictRoutine
    \/ \E r \in RoutineIds : RepeatPredictWorkout(r)

SpecRepeat == InitRepeat /\ [][NextRepeat]_vars

\* two calls of the same predictor with the same argument on one snapshot
SameCall == latest.fn # "none" /\ latest.fn = earlier.fn /\ latest.arg = earlier.arg

has_selected_program_always == TRUE

\* Program.objects.get(selected_cardio=True) finds a program
has_selected_program == selected_cardio

\* predict_next_cardio_routine from its first line: no selected program, no result
predict_next_cardio_routine_entry ==
    IF ~has_selected_program THEN None ELSE predict_next_cardio_routine

\* CardioWorkout.objects.get(pk=workout_id) finds the workout
goal_workout_exists(workout_id) == workout_id \in DOMAIN GoalWorkouts

\* get_mph_goal_for_workout from its first line: (0.0, 0.0) for a missing workout
get_mph_goal_entry(workout_id, total_completed_input) ==
    IF ~goal_workout_exists(workout_id)
    THEN [max |-> 0, avg |-> 0, selected |-> None, used_fallback |-> FALSE]
    ELSE get_mph_goal_for_workout(workout_id, total_completed_input)

MaxConfigLogs == 2

\* one workout per routine; the only workout of routine 2 is skipped
ConfigCatalogue ==
    [w \in WorkoutIds |-> [routine |-> w, priority_order |-> 1, skip |-> (w = 2)]]

NoOutcome == [fn |-> "none", arg |-> None, none |-> FALSE, max |-> 0, avg |-> 0]

InitConfig ==
    /\ workouts = ConfigCatalogue
    /\ plan \in {<<>>, <<1, 2, 3>>}
    /\ logs = <<>>
    /\ skip_marathon_weekdays = FALSE
    /\ predicted = NoCall
    /\ progressions \in {<<>>, <<10, 20, 20>>}
    /\ cardio_logs = <<>>
    /\ selected = NoSelection
    /\ trail = <<>>
    /\ mph_goal_strategy \in {"progression_max_avg", "routine_max_max"}
    /\ daily_logs = <<>>
    /\ strength_logs = <<>>
    /\ goal = NoGoal
    /\ selected_cardio \in BOOLEAN
    /\ outcome = NoOutcome
    /\ IdleBut({"predict", "ladder", "goal", "config"})

\* a session of workout w is logged: one CardioDailyLog row, as each function reads it
ConfigLog(w) ==
    /\ Len(logs) < MaxConfigLogs
    /\ logs' = Append(logs, w)
    /\ cardio_logs' = IF w = 1 THEN Append(cardio_logs, LogRow(10, 10, FALSE, TRUE))
                      ELSE cardio_logs
    /\ daily_logs' = IF w \in DOMAIN GoalWorkouts
                     THEN Append(daily_logs, CardioRow(w, FALSE, 4, 705, 600, 1))
                     ELSE daily_logs
    /\ outcome' = NoOutcome
    /\ UNCHANGED <<workouts, plan, skip_marathon_weekdays, predicted>>
    /\ UNCHANGED <<progressions, selected, trail, mph_goal_strategy, strength_logs, goal>>
    /\ UNCHANGED selected_cardio
    /\ UNCHANGED configOthers

ConfigUnchanged ==
    /\ UNCHANGED <<predVars, ladderVars, goalVars, selected_cardio>>
    /\ UNCHANGED configOthers

ConfigPredictRoutine ==
    /\ outcome' = [fn |-> "routine", arg |-> None,
                   none |-> (predict_next_cardio_routine_entry = None),
                   max |-> 0, avg |-> 0]
    /\ ConfigUnchanged

ConfigPredictWorkout(routine_id) ==
    /\ outcome' = [fn |-> "workout", arg |-> routine_id,
                   none |-> (predict_next_cardio_workout(routine_id) = None),
                   max |-> 0, avg |-> 0]
    /\ ConfigUnchanged

ConfigNextProgression ==
    /\ outcome' = [fn |-> "progression", arg |-> None,
                   none |-> (get_next_progression_for_workout.reason = "no_progressions"),
                   max |-> 0, avg |-> 0]
    /\ ConfigUnchanged

ConfigMphGoal(workout_id, total_completed_input) ==
    /\ LET r == get_mph_goal_entry(workout_id, total_completed_input)
       IN outcome' = [fn |-> "mph", arg |-> workout_id, none |-> FALSE,
                      max |-> r.max, avg |-> r.avg]
    /\ ConfigUnchanged

NextConfig ==
    \/ \E w \in WorkoutIds : ConfigLog(w)
    \/ ConfigPredictRoutine
    \/ \E r \in 1..5 : ConfigPredictWorkout(r)
    \/ ConfigNextProgression
    \/ \E workout_id \in 1..3, input \in {Missing, 1} : ConfigMphGoal(workout_id, input)

SpecConfig == InitConfig /\ [][NextConfig]_vars

\* C12: with no selected cardio program or an empty plan the routine
\* predictor returns None; for a routine id that is unknown or has only
\* skipped workouts the workout predictor returns None; with no progression
\* steps the ladder returns None; for an unknown workout the mph goal is
\* (0.0, 0.0).
C12_NoResultOnMissingConfiguration ==
    /\ outcome.fn = "routine" /\ (~selected_cardio \/ plan = <<>>) => outcome.none
    /\ outcome.fn = "workout"
           /\ (\A w \in DOMAIN workouts :
                   workouts[w].routine = outcome.arg => workouts[w].skip)
           => outcome.none
    /\ outcome.fn = "progression" /\ progressions = <<>> => outcome.none
    /\ outcome.fn = "mph" /\ outcome.arg \notin DOMAIN GoalWorkouts =>
           ~outcome.none /\ outcome.max = 0 /\ outcome.avg = 0

\* a plan and two logged sessions exist, but no program is selected
C12_Witness ==
    /\ outcome.fn = "routine"
    /\ ~selected_cardio
    /\ plan = <<1, 2, 3>>
    /\ Len(logs) = 2
    /\ outcome.none

\* ------------------------------------------------------------------------
\* Bulk creation of detail rows inside @transaction.atomic, and a reader on
\* another connection.  details / stored / last_op are the committed rows;
\* the writer's uncommitted rows live in txn until COMMIT.
\* ------------------------------------------------------------------------

visible_uncommitted(committed, uncommitted) == uncommitted

\* what another connection reads while the writer's transaction is open
visible(committed, uncommitted) == committed

NoTxn ==
    [pc |-> "idle", kind |-> "none", items |-> <<>>, invalid |-> FALSE, pos |-> 0,
     rows |-> <<>>, aggregates |-> NoAggregates, log |-> FALSE,
     before_rows |-> <<>>, before_aggregates |-> NoAggregates, before_log |-> FALSE]

NoObservation == [seen |-> FALSE, log |-> FALSE, details |-> <<>>, stored |-> NoAggregates]

TxnOpen == txn.pc \in {"validate", "insert", "recompute", "commit"}

InitTxn ==
    /\ unit \in Units
    /\ details = <<>>
    /\ stored = NoAggregates
    /\ last_op \in {"none", "create_log"}
    /\ txn = NoTxn
    /\ observed = NoObservation
    /\ IdleBut({"agg", "txn"})

\* a request enters CardioLogCreateView.post ("serializer", the log does not
\* exist yet) or CardioLogDetailsCreateView.post ("view"); both are atomic
TxnBegin(kind, batch, invalid, pos) ==
    /\ ~TxnOpen
    /\ IF kind = "serializer" THEN last_op = "none" /\ pos = 0 ELSE last_op # "none"
    /\ Len(details) + Len(batch) <= MaxRows
    /\ txn' = [pc |-> "validate", kind |-> kind, items |-> batch, invalid |-> invalid,
               pos |-> pos, rows |-> details, aggregates |-> stored,
               log |-> (last_op # "none"),
               before_rows |-> details, before_aggregates |-> stored,
               before_log |-> (last_op # "none")]
    /\ observed' = NoObservation
    /\ UNCHANGED aggVars
    /\ UNCHANGED txnOthers

\* ser.is_valid: an invalid payload ends the request before any write
TxnValidate ==
    /\ txn.pc = "validate"
    /\ txn' = [txn EXCEPT !.pc = IF txn.invalid THEN "rejected" ELSE "insert"]
    /\ UNCHANGED <<aggVars, observed>>
    /\ UNCHANGED txnOthers

\* (the log row, then) bulk_create of the batch
TxnBulkCreate ==
    /\ txn.pc = "insert"
    /\ txn' = [txn EXCEPT !.pc = "recompute", !.log = TRUE,
                          !.rows = InsertAt(txn.rows, txn.pos, txn.items)]
    /\ UNCHANGED <<aggVars, observed>>
    /\ UNCHANGED txnOthers

TxnRecompute ==
    /\ txn.pc = "recompute"
    /\ txn' = [txn EXCEPT !.pc = "commit",
                          !.aggregates = details_create_view_stored(txn.aggregates, txn.rows)]
    /\ UNCHANGED <<aggVars, observed>>
    /\ UNCHANGED txnOthers

\* the decorated view returns: COMMIT
TxnCommit ==
    /\ txn.pc = "commit"
    /\ details' = txn.rows
    /\ stored' = txn.aggregates
    /\ last_op' = IF txn.kind = "serializer" THEN "create_serializer" ELSE "create_view"
    /\ txn' = [txn EXCEPT !.pc = "committed"]
    /\ UNCHANGED <<unit, observed>>
    /\ UNCHANGED txnOthers

\* a request on another connection reads the log and its rows
TxnRead ==
    /\ txn.pc # "idle"
    /\ observed' = [seen |-> TRUE,
                    log |-> visible(last_op # "none", txn.log),
                    details |-> visible(details, txn.rows),
                    stored |-> visible(stored, txn.aggregates)]
    /\ UNCHANGED <<aggVars, txn>>
    /\ UNCHANGED txnOthers

NextTxn ==
    \/ \E kind \in {"serializer", "view"}, batch \in Batches, invalid \in BOOLEAN,
          pos \in 0..Len(details) : TxnBegin(kind, batch, invalid, pos)
    \/ TxnValidate
    \/ TxnBulkCreate
    \/ TxnRecompute
    \/ TxnCommit
    \/ TxnRead

SpecTxn == InitTxn /\ [][NextTxn]_vars

SameAggregates(a, b) ==
    /\ a.max_mph = b.max_mph
    /\ a.avg_mph = b.avg_mph
    /\ a.total_completed = b.total_completed
    /\ a.minutes_elapsed = b.minutes_elapsed

\* C13: a reader concurrent with a bulk creation sees the log either as it
\* was before the batch (rows and aggregates) or with the whole batch and
\* the aggregates recomputed from it, never rows of the batch with the old
\* aggregates; and a batch with an invalid payload leaves rows and aggregates
\* as they were.
C13_BatchAtomic ==
    /\ observed.seen =>
           \/ /\ observed.log = txn.before_log
              /\ observed.details = txn.before_rows
              /\ observed.stored = txn.before_aggregates
           \/ /\ observed.log
              /\ observed.details = InsertAt(txn.before_rows, txn.pos, txn.items)
              /\ SameAggregates(observed.stored, recompute_log_aggregates(observed.details))
    /\ txn.pc = "rejected" =>
           /\ details = txn.before_rows
           /\ stored = txn.before_aggregates
           /\ (last_op # "none") = txn.before_log

\* the reader read while the batch was inserted but not yet recomputed
C13_Witness ==
    /\ txn.pc = "recompute"
    /\ txn.kind = "view"
    /\ Len(txn.rows) = 2
    /\ observed.seen
    /\ observed.details = <<>>
    /\ observed.stored = NoAggregates

\* ------------------------------------------------------------------------
\* ensure_backfilled when the backfill's INSERT meets a locked database
\* ------------------------------------------------------------------------

MaxBusy == 1

InitContention ==
    /\ pc = [t \in Threads |-> "idle"]
    /\ call = [t \in Threads |-> [now |-> None, force |-> FALSE]]
    /\ _last_run_at = None
    /\ _run_lock = Unlocked
    /\ seen = [t \in Threads |-> NotSeen]
    /\ ran = [t \in Threads |-> FALSE]
    /\ created = [t \in Threads |-> 0]
    /\ n_created = 0
    /\ overlap = FALSE
    /\ busy = 0
    /\ raised = [t \in Threads |-> FALSE]
    /\ IdleBut({"debounce", "contention"})

\* another connection starts a write and holds the database lock
Contend ==
    /\ busy < MaxBusy
    /\ busy' = busy + 1
    /\ UNCHANGED <<debounceVars, raised>>
    /\ UNCHANGED contentionOthers

\* a request enters ensure_backfilled
ContendedBegin(t, now) ==
    /\ raised' = [raised EXCEPT ![t] = FALSE]
    /\ UNCHANGED busy
    /\ Begin(t, now, FALSE)

\* the backfill runs with the database free
UncontendedRun(t, k) ==
    /\ busy = 0
    /\ RunBackfill(t, k)
    /\ UNCHANGED <<busy, raised>>

\* CardioDailyLog.objects.create raises OperationalError inside
\* backfill_rest_days_if_gap: nothing catches it, the with block releases the
\* lock, _last_run_at stays as it was, the caller gets the exception
ContendedRun(t) ==
    /\ pc[t] = "run"
    /\ busy > 0
    /\ busy' = busy - 1
    /\ raised' = [raised EXCEPT ![t] = TRUE]
    /\ ran' = [ran EXCEPT ![t] = TRUE]
    /\ _run_lock' = Unlocked
    /\ pc' = [pc EXCEPT ![t] = "done"]
    /\ UNCHANGED <<call, _last_run_at, seen, created, n_created, overlap>>
    /\ UNCHANGED contentionOthers

ContentionStep(t) ==
    /\ FirstCheck(t) \/ Acquire(t) \/ Recheck(t) \/ Stamp(t) \/ Release(t)
    /\ UNCHANGED <<busy, raised>>

NextContention ==
    \/ Contend
    \/ \E t \in Threads, now \in Times : ContendedBegin(t, now)
    \/ \E t \in Threads : ContentionStep(t)
    \/ \E t \in Threads, k \in {0, 1} : UncontendedRun(t, k)
    \/ \E t \in Threads : ContendedRun(t)

SpecContention == InitContention /\ [][NextContention]_vars

\* C14 as stated: a write of the backfill that fails on contention is
\* retried; the failure never reaches the caller of ensure_backfilled.
C14_Original == \A t \in Threads : ~raised[t]

\* the first call met a locked database: its caller got the exception, the
\* lock is free again and no run was stamped
C14_Witness ==
    /\ raised["t1"]
    /\ pc["t1"] = "done"
    /\ ran["t1"]
    /\ created["t1"] = 0
    /\ _run_lock = Unlocked
    /\ _last_run_at = None


\* ------------------------------------------------------------------------
\* SpecRecent: requests for the recent cardio logs
\* (CardioLogsRecentView.get_queryset -> ensure_backfilled())
\* ------------------------------------------------------------------------

\* the view passing force=True on every request
view_force_always == TRUE

\* RestBackfillService.instance().ensure_backfilled(): force keeps its default
view_force == FALSE

\* now = now or timezone.now(): the clock never runs backwards
clock_floor ==
    LET stamps == {call[t].now : t \in Threads} \cup {_last_run_at}
    IN  CHOOSE m \in stamps : \A x \in stamps : x <= m

\* a request for the recent logs enters get_queryset at the current time
RecentRequest(t, now) ==
    /\ now >= clock_floor
    /\ Begin(t, now, view_force)

NextRecent ==
    \/ \E t \in Threads, now \in Times : RecentRequest(t, now)
    \/ \E t \in Threads : FirstCheck(t)
    \/ \E t \in Threads : Acquire(t)
    \/ \E t \in Threads : Recheck(t)
    \/ \E t \in Threads, k \in {0, 1} : RunBackfill(t, k)
    \/ \E t \in Threads : Stamp(t)
    \/ \E t \in Threads : Release(t)

SpecRecent == InitDebounce /\ [][NextRecent]_vars

\* the number of times the request of t has called backfill_rest_days_if_gap
invocations(t) == IF ran[t] THEN 1 ELSE 0

MaxEndpointLogs == 1

\* logged sessions: peaks and averages on and off a whole tenth
EndpointRows ==
    {CardioRow(w, FALSE, age, mx, av, tc) :
        w \in {1, 2}, age \in {4, 30}, mx \in {600, 605}, av \in {550, 600},
        tc \in {1, 3}}

EndpointLog(row) ==
    /\ Len(daily_logs) < MaxEndpointLogs
    /\ Newer(daily_logs, row)
    /\ daily_logs' = Append(daily_logs, row)
    /\ goal' = NoGoal
    /\ UNCHANGED <<mph_goal_strategy, strength_logs>>
    /\ UNCHANGED goalOthers

\* GET /api/cardio/mph-goal/?workout_id=..&value=..: both are required, the
\* payload's mph_goal and mph_goal_avg are the function's pair
CardioMPHGoalView_get(workout_id, value) ==
    CallMphGoal(workout_id, value)

NextEndpoint ==
    \/ \E row \in EndpointRows : EndpointLog(row)
    \/ \E workout_id \in {1, 2}, value \in {1, 3} :
           CardioMPHGoalView_get(workout_id, value)

SpecEndpoint == InitGoal /\ [][NextEndpoint]_vars

\* the history in scope of the answered request is one log with
\* max_mph = avg_mph = 6.0
SinglePeakAtSix ==
    /\ goal.fn = "mph"
    /\ Len(daily_logs) = 1
    /\ mph_logs_qs(goal.workout_id) = {1}
    /\ daily_logs[1].max_mph = 600
    /\ daily_logs[1].avg_mph = 600

LastLogDt(rows) == SetMax({l.datetime_started : l \in rows})

\* the calendar days strictly after the most recent log's day and strictly
\* before today that hold no log
TrailingDays(rows, now) ==
    {day \in (localdate(LastLogDt(rows)) + 1) .. (localdate(now) - 1) :
        day \notin existing_days(rows)}

\* the calendar days of the rows the last call created
CreatedDays == {localdate(returned[k]) : k \in DOMAIN returned}

\* the last call created one Rest row on each day of days and nothing else
CreatedExactly(days) ==
    /\ CreatedDays = days
    /\ Len(returned) = Cardinality(days)
    /\ gap_logs = gap_before \cup RestRows(returned)

\* C17 as stated: nothing is created when now is at most 32 hours after the
\* most recent log; otherwise exactly one Rest log is created on each day
\* after the most recent log's day and before today that has no log.
C17_Original ==
    (gap_op = "backfill_if_gap" /\ gap_before # {}) =>
        IF clock - LastLogDt(gap_before) <= 32
        THEN CreatedExactly({})
        ELSE CreatedExactly(TrailingDays(gap_before, clock))

\* C17: backfill_rest_days_if_gap creates nothing when there is no log, when
\* now is at most 32 hours after the most recent log, or when no Rest
\* workout is configured; otherwise it creates exactly one Rest log on each
\* calendar day strictly after the most recent log's day and strictly before
\* today that has no log, and none on any other day; no created entry is
\* dated today or later.
C17_TrailingBackfill ==
    gap_op = "backfill_if_gap" =>
        /\ IF gap_before = {} THEN CreatedExactly({})
           ELSE IF clock - LastLogDt(gap_before) <= 32 THEN CreatedExactly({})
           ELSE IF ~rest_workout THEN CreatedExactly({})
           ELSE CreatedExactly(TrailingDays(gap_before, clock))
        /\ \A k \in DOMAIN returned : localdate(returned[k]) < localdate(clock)

\* a session early on local day 0 and none since: on local day 2 the day in
\* between gets one Rest log, at the session's time of day
C17_Witness ==
    /\ gap_op = "backfill_if_gap"
    /\ rest_workout
    /\ tz_offset = -5
    /\ gap_before = {GapRow(8, "Run")}
    /\ clock - LastLogDt(gap_before) > 32
    /\ localdate(clock) = 2
    /\ returned = <<32>>
    /\ CreatedDays = {1}


\* ------------------------------------------------------------------------
\* Properties of the full backfill (backfill_all_rest_day_gaps)
\* ------------------------------------------------------------------------

\* the calendar days on which rows has a cardio log
LogDays(rows) == {(l.datetime_started + tz_offset) \div 24 : l \in rows}

\* every day strictly between the first and the last log's day has a log
Dense(rows) ==
    rows # {} =>
        \A day \in (SetMin(LogDays(rows)) + 1) .. (SetMax(LogDays(rows)) - 1) :
            day \in LogDays(rows)

\* C18: after backfill_all_rest_day_gaps completes, a Rest workout being
\* configured, every calendar day strictly between the day of the first
\* cardio log and the day of the last cardio log has at least one cardio log.
C18_DenseTimeline ==
    (gap_op = "backfill_all" /\ rest_workout) => Dense(gap_logs)

\* two sessions with an empty day between them: the run put a Rest log on it
C18_Witness ==
    /\ gap_op = "backfill_all"
    /\ rest_workout
    /\ Cardinality(gap_before) = 2
    /\ \A l \in gap_before : l.workout = "Run"
    /\ ~Dense(gap_before)
    /\ returned # <<>>
    /\ \E k \in DOMAIN returned :
           /\ localdate(returned[k]) > SetMin(LogDays(gap_before))
           /\ localdate(returned[k]) < SetMax(LogDays(gap_before))
    /\ Dense(gap_logs)


\* ------------------------------------------------------------------------
\* Cleanup: delete_rest_on_days_with_activity
\* ------------------------------------------------------------------------

\* no log taken for a Rest log
is_rest_never(log) == FALSE

\* is_rest = (wname == "rest") or (rname == "rest")
is_rest(log) == log.workout = "Rest"

activity_days(rows) ==
    {localdate(l.datetime_started) : l \in {r \in rows : ~is_rest(r)}}

\* to_delete: the Rest logs of the days in activity_days
delete_rest_on_days_with_activity(rows) ==
    {l \in rows : is_rest(l) /\ localdate(l.datetime_started) \in activity_days(rows)}

\* the cleanup called on its own, possibly again right after itself
Cleanup ==
    /\ gap_op = "cleanup" => Len(run_counts) < MaxRuns
    /\ LET to_delete == delete_rest_on_days_with_activity(gap_logs)
       IN /\ gap_logs' = gap_logs \ to_delete
          /\ returned' = SortedDts({l.datetime_started : l \in to_delete})
          /\ run_counts' = Append(IF gap_op = "cleanup" THEN run_counts ELSE <<>>,
                                  Cardinality(to_delete))
    /\ gap_before' = gap_logs
    /\ gap_op' = "cleanup"
    /\ UNCHANGED <<rest_workout, tz_offset, clock>>
    /\ UNCHANGED gapOthers

\* CardioBackfillAllGapsView.post: the full backfill, then the cleanup, in
\* one transaction; gap_before is the history the cleanup found
CardioBackfillAllGapsView_post ==
    /\ gap_op # "post"
    /\ LET created_rows == backfill_all_rest_day_gaps(clock)
           filled       == gap_logs \cup RestRows(created_rows)
           to_delete    == delete_rest_on_days_with_activity(filled)
       IN /\ gap_logs' = filled \ to_delete
          /\ returned' = SortedDts({l.datetime_started : l \in to_delete})
          /\ gap_before' = filled
    /\ run_counts' = <<>>
    /\ gap_op' = "post"
    /\ UNCHANGED <<rest_workout, tz_offset, clock>>
    /\ UNCHANGED gapOthers

NextCleanup ==
    \/ Tick
    \/ \E dt \in GapTimes : LogSession(dt)
    \/ BackfillIfGap
    \/ Cleanup
    \/ CardioBackfillAllGapsView_post

SpecCleanup == InitGaps /\ [][NextCleanup]_vars

SameDay(a, b) ==
    (a.datetime_started + tz_offset) \div 24 = (b.datetime_started + tz_offset) \div 24

\* the Rest logs of rows that share their calendar day with a non-Rest log
RestWithActivity(rows) ==
    {l \in rows : l.workout = "Rest"
                  /\ \E m \in rows : m.workout # "Rest" /\ SameDay(l, m)}

\* C19: after delete_rest_on_days_with_activity returns, no calendar day
\* holds both a Rest log and a non-Rest log; the logs it deleted (and
\* returned) are exactly the Rest logs on days that also had a non-Rest log,
\* every other log is still there, and a second call right after deletes
\* nothing.
C19_CleanupExact ==
    gap_op \in {"cleanup", "post"} =>
        /\ RestWithActivity(gap_logs) = {}
        /\ gap_logs = gap_before \ RestWithActivity(gap_before)
        /\ returned = SortedDts({l.datetime_started : l \in RestWithActivity(gap_before)})
        /\ (gap_op = "cleanup" /\ Len(run_counts) >= 2) => returned = <<>>

\* a session logged afterwards on a backfilled day: the first call deleted
\* that day's Rest log and kept the Rest log of the still empty day, the
\* second call found nothing to delete
C19_Witness ==
    /\ gap_op = "cleanup"
    /\ run_counts = <<1, 0>>
    /\ returned = <<>>
    /\ gap_before = gap_logs
    /\ Cardinality({l \in gap_logs : l.workout = "Rest"}) = 1
    /\ Cardinality({l \in gap_logs : l.workout = "Run"}) = 2
    /\ RestWithActivity(gap_logs) = {}


\* ------------------------------------------------------------------------
\* Advancing past a completed duplicate band
\* ------------------------------------------------------------------------

\* v is the ladder value nearest to g, the lower one on a tie
SnapsTo(g, v) ==
    /\ v \in DistinctValues(progressions)
    /\ \A c \in DistinctValues(progressions) :
           \/ Abs(v - g) < Abs(c - g)
           \/ Abs(v - g) = Abs(c - g) /\ v <= c

\* the value the latest qualifying log's total_completed snaps to
CurrentValue ==
    CHOOSE v \in DistinctValues(progressions) :
        SnapsTo(eligible_logs[Len(eligible_logs)].total_completed, v)

\* how many of the newest qualifying logs in a row have a goal snapping to v
ConsecutiveAt(v) ==
    SetMax({n \in 0..Len(eligible_logs) :
               \A k \in (Len(eligible_logs) - n + 1)..Len(eligible_logs) :
                   SnapsTo(eligible_logs[k].goal, v)})

\* the last 0-based index holding v
BandLast(v) == SetMax({i \in 0..(Len(progressions) - 1) : At0(progressions, i) = v})

\* the case of the claim: the band of the current value is completed and is
\* not the last band
BandCompleted ==
    /\ selected.idx >= 0
    /\ eligible_logs # <<>>
    /\ ConsecutiveAt(CurrentValue) >= BandSize(progressions, CurrentValue)
    /\ BandLast(CurrentValue) < Len(progressions) - 1

BandFirst(v) == SetMin({i \in 0..(Len(progressions) - 1) : At0(progressions, i) = v})

\* the value at index len-3, at index 0 on a ladder of fewer than 3 steps
EndOfPlanTarget ==
    IF Len(progressions) >= 3
    THEN At0(progressions, Len(progressions) - 3) ELSE At0(progressions, 0)

\* the snapped band is the last band of the ladder and all its repeats are done
LastBandCompleted ==
    /\ selected.idx >= 0
    /\ eligible_logs # <<>>
    /\ ConsecutiveAt(CurrentValue) >= BandSize(progressions, CurrentValue)
    /\ BandLast(CurrentValue) = Len(progressions) - 1

achieved_ever ==
    SelectSeq(cardio_logs, LAMBDA l :
        l.goal # None /\ ~l.ignore /\ l.total_completed >= l.goal)

MaxAchievedEver ==
    SetMax({achieved_ever[k].total_completed : k \in 1..Len(achieved_ever)})

\* C22 as stated: with no qualifying log inside the window, lastAchieved is
\* the maximum achieved value ever logged and the snap/band steps continue
\* from it (no log of the window counts, so the first element of the band it
\* snaps to is served); the first step is returned only without any usable
\* log.
C22_Original ==
    (selected.idx >= 0 /\ eligible_logs = <<>>) =>
        IF achieved_ever = <<>> THEN selected.idx = 0
        ELSE \E v \in DistinctValues(progressions) :
                 /\ SnapsTo(MaxAchievedEver, v)
                 /\ selected.idx = BandFirst(v)

\* ladder [10,20,30], one achieved session of 30 older than 26 weeks: the
\* call returns the first step
C22_Witness ==
    /\ progressions = <<10, 20, 30>>
    /\ cardio_logs = <<LogRow(30, 30, FALSE, FALSE)>>
    /\ selected = [idx |-> 0, reason |-> "no_recent_history"]


\* ------------------------------------------------------------------------
\* What the consecutive count looks at
\* ------------------------------------------------------------------------

\* how many of the newest qualifying logs in a row have a total_completed
\* snapping to v
ConsecutiveAchievedAt(v) ==
    SetMax({n \in 0..Len(eligible_logs) :
               \A k \in (Len(eligible_logs) - n + 1)..Len(eligible_logs) :
                   SnapsTo(eligible_logs[k].total_completed, v)})

\* C23 as stated: the consecutive count is the number of most-recent
\* qualifying logs whose achieved value snaps to the value lastAchieved snaps
\* to; while it is below the band size, the band element at that offset is
\* served.
C23_Original ==
    (/\ selected.idx >= 0
     /\ eligible_logs # <<>>
     /\ ConsecutiveAchievedAt(CurrentValue) < BandSize(progressions, CurrentValue))
    => selected.idx = BandFirst(CurrentValue) + ConsecutiveAchievedAt(CurrentValue)

\* ladder [10,20,20], one session with goal 10 and 20 achieved: the achieved
\* value snaps to 20 once, yet the first 20 is served as if none had
C23_Witness ==
    /\ progressions = <<10, 20, 20>>
    /\ cardio_logs = <<LogRow(10, 20, FALSE, TRUE)>>
    /\ CurrentValue = 20
    /\ ConsecutiveAchievedAt(20) = 1
    /\ ConsecutiveAt(20) = 0
    /\ selected = [idx |-> 1, reason |-> "duplicate_band"]


\* ------------------------------------------------------------------------
\* SpecNearest: _nearest_progression_value and get_closest_progression_value
\* on candidate lists in any order, with duplicates
\* ------------------------------------------------------------------------

MaxCandidates == 3

NearValues == {5, 10, 14, 15, 20, 25, 30, 35}

InitNearest ==
    /\ near_value \in NearValues
    /\ near_candidates \in SeqsUpTo(LadderValues, MaxCandidates)
    /\ near_result = None
    /\ IdleBut({"nearest"})

\* _nearest_progression_value(value, candidates) on a non-empty list
CallNearest ==
    /\ near_candidates # <<>>
    /\ near_result = None
    /\ near_result' = _nearest_progression_value(near_value, near_candidates)
    /\ UNCHANGED <<near_value, near_candidates>>
    /\ UNCHANGED nearestOthers

\* get_closest_progression_value(workout_id, target): the workout's
\* progressions are the candidates; without any, target comes back
CallClosest ==
    /\ near_result = None
    /\ near_result' = IF near_candidates = <<>> THEN near_value
                      ELSE _nearest_progression_value(near_value, near_candidates)
    /\ UNCHANGED <<near_value, near_candidates>>
    /\ UNCHANGED nearestOthers

\* another value is asked about
NextValue(v) ==
    /\ near_result # None
    /\ near_value' = v
    /\ near_result' = None
    /\ UNCHANGED near_candidates
    /\ UNCHANGED nearestOthers

NextNearest ==
    \/ CallNearest
    \/ CallClosest
    \/ \E v \in NearValues : NextValue(v)

SpecNearest == InitNearest /\ [][NextNearest]_vars

Distance(a, b) == IF a >= b THEN a - b ELSE b - a

\* C24: for every value and every non-empty candidate list, the result is a
\* candidate at minimal absolute distance from the value, and it is the
\* lower one when two distinct candidates are equally near.
C24_NearestLowerOnTie ==
    (near_result # None /\ near_candidates # <<>>) =>
        /\ \E k \in 1..Len(near_candidates) : near_candidates[k] = near_result
        /\ \A k \in 1..Len(near_candidates) :
               /\ Distance(near_result, near_value)
                      <= Distance(near_candidates[k], near_value)
               /\ Distance(near_result, near_value)
                      = Distance(near_candidates[k], near_value)
                  => near_result <= near_candidates[k]

\* 15 lies midway between 20 and 10, listed in descending order with a
\* duplicate: the lower value 10 comes back
C24_Witness ==
    /\ near_value = 15
    /\ near_candidates = <<20, 20, 10>>
    /\ near_result = 10


\* ------------------------------------------------------------------------
\* The history window of the predictors and entries outside the plan
\* ------------------------------------------------------------------------

\* the workout predictor's steps applied to the M most recent in-plan logs
\* of the routine
WorkoutFromInPlanWindow(routine_id) ==
    LET plan_ids == workout_plan_ids(routine_id)
        window   == LastN(InPlanOnly(RoutineLogs(routine_id), plan_ids),
                          max_priority(routine_id))
    IN IF plan_ids = <<>> THEN None
       ELSE IF window = <<>> THEN plan_ids[1]
       ELSE prefer_missing(plan_ids, window)

\* C25 as stated: the window is the N most recent log entries that belong to
\* the plan; entries outside the plan take no window slot, so each predictor
\* returns what it returns on the history with those entries removed.
C25_Original ==
    /\ predicted.fn = "routine"
       => predicted.val = PredictRoutine(plan, InPlanOnly(LogRoutineIds, plan))
    /\ predicted.fn = "workout"
       => predicted.val = WorkoutFromInPlanWindow(predicted.arg)

\* plan [1,2], history 1 and then two sessions of a routine outside the
\* plan: the two window slots hold the foreign sessions, the in-plan session
\* is not seen and the first plan item is returned instead of 2
C25_Witness ==
    /\ predicted.fn = "routine"
    /\ ~skip_marathon_weekdays
    /\ plan = <<1, 2>>
    /\ LogRoutineIds = <<1, 4, 4>>
    /\ routine_recent_pattern(plan, LogRoutineIds) = <<>>
    /\ PredictRoutine(plan, InPlanOnly(LogRoutineIds, plan)) = 2
    /\ predicted.val = 1


\* ------------------------------------------------------------------------
\* Full matches of the recent pattern in the repeated plan
\* ------------------------------------------------------------------------

\* the plan repeated max(2, len(pattern) // n + 2) times
RepeatedPlan(plan_ids, pattern) ==
    Repeat(plan_ids, Max2(2, (Len(pattern) \div Len(plan_ids)) + 2))

\* pattern stands in full at the 0-based position st of text
OccursAt(text, pattern, st) ==
    /\ st + Len(pattern) <= Len(text)
    /\ \A k \in 0..(Len(pattern) - 1) : At0(text, st + k) = At0(pattern, k)

\* the start positions of the full occurrences of the recent pattern in the
\* repeated plan without its final element
FullOccurrences ==
    LET pattern  == routine_recent_pattern(plan, LogRoutineIds)
        repeated == RepeatedPlan(plan, pattern)
        space    == SubSeq(repeated, 1, Len(repeated) - 1)
    IN {st \in 0..(Len(space) - 1) : OccursAt(space, pattern, st)}

FullyMatched ==
    /\ predicted.fn = "routine"
    /\ ~skip_marathon_weekdays
    /\ plan # <<>>
    /\ routine_recent_pattern(plan, LogRoutineIds) # <<>>
    /\ FullOccurrences # {}

\* C26: with the weekday rule inactive, when the filtered recent pattern
\* occurs in full in the repeated plan without its final element, the
\* routine predictor returns the element immediately after the occurrence
\* with the greatest start index.
C26_RightmostFullMatch ==
    FullyMatched =>
        LET pattern == routine_recent_pattern(plan, LogRoutineIds)
        IN predicted.val = At0(RepeatedPlan(plan, pattern),
                               SetMax(FullOccurrences) + Len(pattern))

\* plan [5K, Sprints, Rest, 5K, Sprints], history 5K, Sprints: the last full
\* occurrence starts at index 5 and Rest follows it
C26_Witness ==
    /\ FullyMatched
    /\ plan = <<1, 2, 3, 1, 2>>
    /\ LogRoutineIds = <<1, 2>>
    /\ SetMax(FullOccurrences) = 5
    /\ predicted.val = 3


\* ------------------------------------------------------------------------
\* The weekday eligibility rule
\* ------------------------------------------------------------------------

\* the rule is in force and the plan holds a routine that is no marathon
\* routine
WeekdayRuleApplies ==
    /\ predicted.fn = "routine"
    /\ skip_marathon_weekdays
    /\ \E k \in 1..Len(plan) : plan[k] \notin MarathonRoutines

\* C27: with skip_marathon_prep_weekdays enabled on a weekday, and a plan
\* with at least one routine that is no marathon routine, the routine
\* predictor never returns a marathon routine, whatever the history.
C27_NoMarathonOnWeekdays ==
    WeekdayRuleApplies => predicted.val \notin MarathonRoutines

\* plan [5K, Sprints, Marathon] after 5K and Sprints: the full match points
\* at Marathon, the scan forward from there returns 5K
C27_Witness ==
    /\ WeekdayRuleApplies
    /\ plan = <<1, 2, 3>>
    /\ LogRoutineIds = <<1, 2>>
    /\ predicted.val = 1


\* ------------------------------------------------------------------------
\* The historical window of the goal engine and its fallback
\* ------------------------------------------------------------------------

\* the in-scope logs of the answered call (indices, a higher index is newer)
InScope ==
    IF goal.fn = "mph" THEN base_logs_qs(goal.workout_id)
    ELSE {i \in DOMAIN strength_logs : ~strength_logs[i].ignore}

\* the in-scope logs inside the window: 26 weeks for mph, 8 weeks for rph
InWindow ==
    IF goal.fn = "mph" THEN {i \in InScope : daily_logs[i].weeks_ago <= 26}
    ELSE {i \in InScope : strength_logs[i].weeks_ago <= 8}

\* the next tenth above x (hundredths), 0 for a missing value
NextTenth(x) == IF x = Missing THEN 0 ELSE x - (x % 10) + 10

\* the log has a positive rate
HasRate(i) ==
    /\ strength_logs[i].total_reps_completed # Missing
    /\ strength_logs[i].minutes_elapsed # Missing
    /\ strength_logs[i].minutes_elapsed > 0
    /\ strength_logs[i].total_reps_completed > 0

\* reps per hour of log i, rounded up to a multiple of step
RateRoundedUp(i, step) ==
    LET n == strength_logs[i].total_reps_completed * 60
        d == strength_logs[i].minutes_elapsed * step
    IN ((n + d - 1) \div d) * step

\* what the two goal functions make of the single log i
FromSingleLog(i) ==
    IF goal.fn = "mph"
    THEN LET mx == NextTenth(daily_logs[i].max_mph)
             av == NextTenth(daily_logs[i].avg_mph)
         IN /\ goal.selected = i
            /\ goal.avg = av
            /\ goal.max = IF av # 0 /\ mx = av THEN av + 10 ELSE mx
    ELSE IF HasRate(i)
         THEN /\ goal.max = RateRoundedUp(i, goal.round_step)
              /\ goal.avg = RateRoundedUp(i, goal.round_step)
         ELSE goal.max = 0 /\ goal.avg = 0

\* C28: when in-scope history exists but none of it lies inside the window,
\* the goal is computed from the single most recent in-scope log; when the
\* window holds in-scope logs, only they are candidates.
C28_WindowFallback ==
    goal.fn \in {"mph", "rph"} =>
        /\ (InWindow = {} /\ InScope # {}) => FromSingleLog(SetMax(InScope))
        /\ (InWindow # {} /\ goal.fn = "mph") => goal.selected \in InWindow
        /\ (InWindow # {} /\ goal.fn = "rph") =>
               \/ goal.max = 0 /\ \A i \in InWindow : ~HasRate(i)
               \/ \E i \in InWindow :
                      HasRate(i) /\ goal.max <= RateRoundedUp(i, goal.round_step)

\* two sessions of workout 1, both older than 26 weeks: the goal comes from
\* the newer of the two
C28_Witness ==
    /\ goal.fn = "mph"
    /\ goal.workout_id = 1
    /\ daily_logs = <<CardioRow(1, FALSE, 30, 1100, 800, 1),
                      CardioRow(1, FALSE, 30, 1100, 800, 1)>>
    /\ InWindow = {}
    /\ goal.selected = 2
    /\ goal.max = 1110
    /\ goal.avg = 810


\* ------------------------------------------------------------------------
\* SpecInvisible: the ladder with failed and ignored sessions logged at any
\* time between the rounds
\* ------------------------------------------------------------------------

MaxFailed == 2

\* sessions that missed the goal, are flagged ignore, or carry no goal
FailedShapes ==
    {LogRow(20, 10, FALSE, TRUE), LogRow(30, 30, TRUE, TRUE),
     LogRow(None, 20, FALSE, TRUE)}

Qualifies(l) == l.goal # None /\ ~l.ignore /\ l.total_completed >= l.goal

\* a failed session is logged; selected keeps the result of the latest call
LogFailed(l) ==
    /\ Cardinality({k \in 1..Len(cardio_logs) : ~Qualifies(cardio_logs[k])}) < MaxFailed
    /\ cardio_logs' = Append(cardio_logs, l)
    /\ UNCHANGED <<progressions, selected, trail>>
    /\ UNCHANGED ladderOthers

NextInvisible ==
    \/ \E l \in FailedShapes : LogFailed(l)
    \/ CallNextProgression
    \/ LogServed

SpecInvisible == InitLadder /\ [][NextInvisible]_vars

\* C29: adding a cardio log that has no goal, is flagged ignore, or has
\* total_completed < goal never changes the result of
\* get_next_progression_for_workout: the result of the latest call is still
\* the result after any such logs added since.
C29_FailedLogsInvisible ==
    selected.idx >= 0 => selected = get_next_progression_for_workout

\* ladder [10,20,20]: 10 and the first 20 served and achieved, then a
\* missed session of 20: the second 20 is served, as without the missed
\* session
C29_Witness ==
    /\ progressions = <<10, 20, 20>>
    /\ trail = <<0, 1>>
    /\ cardio_logs = <<LogRow(10, 10, FALSE, TRUE), LogRow(20, 20, FALSE, TRUE),
                       LogRow(20, 10, FALSE, TRUE)>>
    /\ selected = [idx |-> 2, reason |-> "duplicate_band"]


\* ------------------------------------------------------------------------
\* TrainingTypeRecommendationView.get: recommendation_types, recommendation
\* Completion is counted in halves of a session; a pct is a pair
\* <<done, plan>> of halves.
\* ------------------------------------------------------------------------

\* for k in type_info: cardio, strength, supplemental (also their name order)
TrainingTypes == <<"cardio", "strength", "supplemental">>

TypeSet == {"cardio", "strength", "supplemental"}

strength_plan_non_rest == 3

supplemental_plan_non_rest == 5

plan_by_type(k) ==
    IF k = "cardio" THEN cardio_plan_non_rest
    ELSE IF k = "strength" THEN strength_plan_non_rest
    ELSE supplemental_plan_non_rest

\* pct(done, plan): 1.0 for an empty plan, else done / plan
pct_by_type(k) ==
    IF plan_by_type(k) <= 0 THEN <<1, 1>>
    ELSE <<done_by_type[k], 2 * plan_by_type(k)>>

PctLess(a, b) == a[1] * b[2] < b[1] * a[2]

PctEq(a, b) == a[1] * b[2] = b[1] * a[2]

\* no discipline taken to be behind
delta_none(k) == 0

\* max(0.0, plan - done), in halves
delta_by_type(k) == Max2(0, 2 * plan_by_type(k) - done_by_type[k])

\* pct_by_type[k] >= 1.0
complete_by_type(k) == ~PctLess(pct_by_type(k), <<1, 1>>)

eligible_by_type(k) ==
    IF k = "cardio"
    THEN /\ cardio_plan_non_rest > 0
         /\ ~complete_by_type("cardio")
         /\ ~blocks.next_cardio_is_rest
         /\ ~blocks.marathon_weekday
    ELSE IF k = "strength"
    THEN /\ strength_plan_non_rest > 0
         /\ ~complete_by_type("strength")
         /\ ~blocks.strength_done_last32
    ELSE /\ supplemental_plan_non_rest > 0
         /\ ~blocks.supplemental_recent_block
         /\ ~complete_by_type("supplemental")

NameIndex(k) == CHOOSE n \in 1..3 : TrainingTypes[n] = k

\* sort_key: (-delta, pct, k)
SortKeyLess(a, b) ==
    \/ delta_by_type(a) > delta_by_type(b)
    \/ /\ delta_by_type(a) = delta_by_type(b)
       /\ \/ PctLess(pct_by_type(a), pct_by_type(b))
          \/ /\ PctEq(pct_by_type(a), pct_by_type(b))
             /\ NameIndex(a) < NameIndex(b)

\* sorted(eligible_types, key=sort_key)
RECURSIVE SortedTypes(_)
SortedTypes(S) ==
    IF S = {} THEN <<>>
    ELSE LET first == CHOOSE a \in S : \A b \in S \ {a} : SortKeyLess(a, b)
         IN <<first>> \o SortedTypes(S \ {first})

\* "+".join(recommendation_types) for the lists of one or two names
JoinPlus(types) ==
    IF Len(types) = 1 THEN types[1] ELSE types[1] \o "+" \o types[2]

recommendation_types ==
    LET eligible_types == {k \in TypeSet : eligible_by_type(k)}
        sorted_types   == SortedTypes(eligible_types)
        behind         == SelectSeq(sorted_types, LAMBDA t : delta_by_type(t) > 0)
        min_pct        == pct_by_type(CHOOSE t \in eligible_types :
                              \A u \in eligible_types :
                                  ~PctLess(pct_by_type(u), pct_by_type(t)))
        at_min         == SelectSeq(sorted_types,
                                    LAMBDA t : PctEq(pct_by_type(t), min_pct))
        chosen         == IF eligible_types = {} THEN <<>>
                          ELSE IF behind # <<>> THEN <<behind[1]>>
                          ELSE IF Len(at_min) = Len(sorted_types)
                                  /\ ~PctLess(min_pct, <<1, 1>>)
                               THEN <<>> ELSE at_min
    IN IF Len(chosen) > 2 THEN SubSeq(chosen, 1, 2) ELSE chosen

recommendation ==
    LET eligible_types == {k \in TypeSet : eligible_by_type(k)}
        types          == recommendation_types
    IN IF eligible_types = {} THEN "rest"
       ELSE IF types = <<>>
            THEN IF \A t \in eligible_types : complete_by_type(t)
                 THEN "rest" ELSE "tie"
       ELSE IF Len(types) = 2 /\ {types[1], types[2]} = {"cardio", "strength"}
            THEN "both"
       ELSE JoinPlus(types)

\* ---- SpecRecommend: sessions are completed, the recommendation is asked ----

MaxCardioPlan == 2

\* halves of a session a discipline can accumulate in the 7-day window
MaxDone == 11

NoResponse == [recommendation_types |-> <<>>, recommendation |-> "none"]

InitRecommend ==
    /\ cardio_plan_non_rest \in 0..MaxCardioPlan
    /\ done_by_type = [k \in TypeSet |-> 0]
    /\ blocks \in [next_cardio_is_rest : BOOLEAN, marathon_weekday : BOOLEAN,
                   strength_done_last32 : BOOLEAN,
                   supplemental_recent_block : BOOLEAN]
    \* the next cardio routine is Rest, or a marathon one of the plan, not both
    /\ blocks.marathon_weekday =>
           ~blocks.next_cardio_is_rest /\ cardio_plan_non_rest > 0
    /\ response = NoResponse
    /\ IdleBut({"recommend"})

\* a session of discipline k adds its completion ratio (half or whole)
CompleteSession(k, halves) ==
    /\ done_by_type[k] + halves <= MaxDone
    /\ done_by_type' = [done_by_type EXCEPT ![k] = @ + halves]
    /\ response' = NoResponse
    /\ UNCHANGED <<cardio_plan_non_rest, blocks>>
    /\ UNCHANGED recOthers

TrainingTypeRecommendationView_get ==
    /\ response' = [recommendation_types |-> recommendation_types,
                    recommendation |-> recommendation]
    /\ UNCHANGED <<cardio_plan_non_rest, done_by_type, blocks>>
    /\ UNCHANGED recOthers

NextRecommend ==
    \/ \E k \in TypeSet, halves \in {1, 2} : CompleteSession(k, halves)
    \/ TrainingTypeRecommendationView_get

SpecRecommend == InitRecommend /\ [][NextRecommend]_vars

\* the disciplines with a plan, less done than planned, and not blocked
Eligible ==
    {k \in TypeSet :
        /\ plan_by_type(k) > 0
        /\ done_by_type[k] < 2 * plan_by_type(k)
        /\ (k = "cardio") => ~blocks.next_cardio_is_rest /\ ~blocks.marathon_weekday
        /\ (k = "strength") => ~blocks.strength_done_last32
        /\ (k = "supplemental") => ~blocks.supplemental_recent_block}

\* halves of a session still to do
Remaining(k) == 2 * plan_by_type(k) - done_by_type[k]

\* C30: recommendation_types holds exactly one discipline, an eligible one
\* with the largest remaining delta, whenever a discipline is eligible, and
\* is empty otherwise; recommendation is never "tie", "both" or a joined
\* pair, and it is "rest" exactly when no discipline is eligible.
C30_SingleRecommendation ==
    response # NoResponse =>
        /\ Eligible # {} =>
               /\ Len(response.recommendation_types) = 1
               /\ response.recommendation_types[1] \in Eligible
               /\ \A k \in Eligible :
                      Remaining(response.recommendation_types[1]) >= Remaining(k)
               /\ response.recommendation = response.recommendation_types[1]
        /\ Eligible = {} => response.recommendation_types = <<>>
        /\ response.recommendation \in TypeSet \cup {"rest"}
        /\ response.recommendation = "rest" <=> Eligible = {}

\* cardio one session behind, strength two and a half, supplemental blocked
\* by recent sessions: strength alone is recommended
C30_Witness ==
    /\ response # NoResponse
    /\ cardio_plan_non_rest = 2
    /\ done_by_type = [k \in TypeSet |->
                          IF k = "cardio" THEN 2 ELSE IF k = "strength" THEN 1 ELSE 0]
    /\ Eligible = {"cardio", "strength"}
    /\ response.recommendation_types = <<"strength">>
    /\ response.recommendation = "strength"

=============================================================================
